---- MODULE Spec2Model ----
(***************************************************************************)
(* Deterministic tick engine of the grid-defense simulation core           *)
(* (src/src/core): grid/wall state machine, cooldowns, enemy slot pool,    *)
(* collision pipeline and the step orchestrator.                           *)
(***************************************************************************)
EXTENDS Integers, Sequences, FiniteSets, TLC

(***************************************************************************)
(* Program constants (src/src/core/constants.py)                           *)
(***************************************************************************)
WIDTH == 13
HEIGHT == 9
EMPTY == 0
WALL == 1
CORE_Y_HALF == 16
MAX_ENEMIES == 20
ENEMY_SPEED_HALF == 1
GCD_FRAMES == 10
CELL_CD_FRAMES == 150
DEFAULT_SPAWN_INTERVAL == 30
MAX_EPISODE_TICKS == 1000
NO_OP_ACTION == 0
DEFAULT_WALL_HP == 1
ENEMY_TYPE_DROP == 0
REWARD_CORE_BREACH == -1
REWARD_ENEMY_KILLED == 1
REWARD_TICK_SURVIVED == 0
\* np.iinfo(np.uint32).max, the sort key of dead slots; TLC integers are 32-bit signed,
\* so the key is the largest of them: above every spawn_tick a bounded run can store
UINT32_MAX_KEY == 2147483647

(***************************************************************************)
(* Bounds of the exploration                                               *)
(***************************************************************************)
\* number of seeds explored: 42 .. 42 + MaxSeeds - 1
MaxSeeds == 2
\* steps are taken while tick < MaxTick in the short-episode specifications
MaxTick == 20
\* in the full-episode specification placements are drawn only while tick < MaxActTick
MaxActTick == 2
\* a caller may go on stepping this many ticks past MAX_EPISODE_TICKS
MaxOverrun == 2
\* direct calls made on one slot pool, and on one grid state
MaxSpawnCalls == 3
MaxPlaceCalls == 2
\* step calls made on each of two interleaved simulations
MaxInterleaveCalls == 6
\* values drawn from the process-global generator after each reseeding
MaxGlobalDraws == 2
\* largest hit-point value given to a wall set up by hand, and the direct calls of
\* the collision functions made on one set-up
MaxWallHp == 3
MaxCollisionCalls == 2
MaxCompactCalls == 2
\* in the cell-cooldown specification steps are taken while
\* tick < CELL_CD_FRAMES + MaxCooldownOverrun
MaxCooldownOverrun == 3

Seeds == 42 .. (42 + MaxSeeds - 1)
Sims == {1, 2}

(***************************************************************************)
(* Fixed-width integer arithmetic of the NumPy dtypes                      *)
(***************************************************************************)
U8(v) == v % 256
U16(v) == v % 65536
I8(v) == ((v + 128) % 256) - 128
I16(v) == ((v + 32768) % 65536) - 32768
Max(a, b) == IF a >= b THEN a ELSE b

Cells == (0 .. HEIGHT - 1) \X (0 .. WIDTH - 1)

\* an array held by value: the function is tabulated once, not re-evaluated on each read
Array(f) == f @@ <<>>
Slots == 0 .. MAX_ENEMIES - 1

(***************************************************************************)
(* Grid state                                                              *)
(***************************************************************************)
create_grid_state ==
    [ grid         |-> Array([c \in Cells |-> 0]),
      wall_hp      |-> Array([c \in Cells |-> 0]),
      wall_armed   |-> Array([c \in Cells |-> FALSE]),
      wall_pending |-> Array([c \in Cells |-> FALSE]),
      cell_cd      |-> Array([c \in Cells |-> 0]),
      gcd          |-> 0 ]

create_enemy_state ==
    [ enemy_y_half     |-> Array([i \in Slots |-> 0]),
      enemy_x          |-> Array([i \in Slots |-> 0]),
      enemy_alive      |-> Array([i \in Slots |-> FALSE]),
      enemy_type       |-> Array([i \in Slots |-> 0]),
      enemy_spawn_tick |-> Array([i \in Slots |-> 0]) ]

\* np.random.default_rng(seed): the generator is its seed and the number of
\* values drawn so far; the stream of a seed is fixed.
default_rng(seed) == [seed |-> seed, pos |-> 0]

create_simulation_state(spawn_interval, seed) ==
    [ grid_state     |-> create_grid_state,
      enemy_state    |-> create_enemy_state,
      tick           |-> 0,
      spawn_interval |-> spawn_interval,
      rng            |-> default_rng(seed) ]

\* rng.integers(0, WIDTH): the next value of the stream, a column in [0, WIDTH)
integers(rng) == (rng.seed + 5 * rng.pos) % WIDTH
advance(rng) == [rng EXCEPT !.pos = @ + 1]

(***************************************************************************)
(* Cooldowns                                                               *)
(***************************************************************************)
\* faulty variant: only the global cooldown is started, the cell keeps its cooldown
apply_cooldowns_gcd_only(state, y, x) ==
    [state EXCEPT !.gcd = U16(GCD_FRAMES)]

\* faulty variant: the cell cooldown is started one frame short
apply_cooldowns_short(state, y, x) ==
    [state EXCEPT !.gcd = U16(GCD_FRAMES),
                  !.cell_cd[<<y, x>>] = U16(CELL_CD_FRAMES - 1)]

\* faulty variant: the global cooldown is started one frame short
apply_cooldowns_short_gcd(state, y, x) ==
    [state EXCEPT !.gcd = U16(GCD_FRAMES - 1),
                  !.cell_cd[<<y, x>>] = U16(CELL_CD_FRAMES)]

apply_cooldowns(state, y, x) ==
    [state EXCEPT !.gcd = U16(GCD_FRAMES),
                  !.cell_cd[<<y, x>>] = U16(CELL_CD_FRAMES)]

\* faulty variant: unconditional unsigned decrement, 0 wraps to 65535
tick_cooldowns_wrap(state) ==
    [state EXCEPT
        !.gcd = U16(state.gcd - 1),
        !.cell_cd = Array([c \in Cells |-> U16(state.cell_cd[c] - 1)])]

tick_cooldowns(state) ==
    [state EXCEPT
        !.gcd = IF state.gcd > 0 THEN U16(state.gcd - 1) ELSE state.gcd,
        !.cell_cd = Array([c \in Cells |->
                        IF state.cell_cd[c] > 0 THEN U16(state.cell_cd[c] - 1) ELSE 0])]

(***************************************************************************)
(* Walls                                                                   *)
(***************************************************************************)
\* faulty variant: the new wall is lethal at once, there is no pending state
place_wall_armed(state, y, x) ==
    IF y < 0 \/ y >= HEIGHT \/ x < 0 \/ x >= WIDTH \/ state.gcd # 0
    THEN [state |-> state, ok |-> FALSE]
    ELSE IF state.cell_cd[<<y, x>>] # 0 \/ state.grid[<<y, x>>] = WALL
    THEN [state |-> state, ok |-> FALSE]
    ELSE [state |-> [state EXCEPT !.grid[<<y, x>>] = WALL,
                                  !.wall_hp[<<y, x>>] = DEFAULT_WALL_HP,
                                  !.wall_pending[<<y, x>>] = FALSE,
                                  !.wall_armed[<<y, x>>] = TRUE],
          ok |-> TRUE]

\* faulty variant: the hit points of the new wall are not written
place_wall_no_hp(state, y, x) ==
    IF y < 0 \/ y >= HEIGHT \/ x < 0 \/ x >= WIDTH \/ state.gcd # 0
    THEN [state |-> state, ok |-> FALSE]
    ELSE IF state.cell_cd[<<y, x>>] # 0 \/ state.grid[<<y, x>>] = WALL
    THEN [state |-> state, ok |-> FALSE]
    ELSE [state |-> [state EXCEPT !.grid[<<y, x>>] = WALL,
                                  !.wall_pending[<<y, x>>] = TRUE,
                                  !.wall_armed[<<y, x>>] = FALSE],
          ok |-> TRUE]

\* faulty variant: a placement rejected by the cell cooldown restarts the global cooldown
place_wall_dirty(state, y, x) ==
    IF y < 0 \/ y >= HEIGHT \/ x < 0 \/ x >= WIDTH \/ state.gcd # 0
    THEN [state |-> state, ok |-> FALSE]
    ELSE IF state.cell_cd[<<y, x>>] # 0
    THEN [state |-> [state EXCEPT !.gcd = U16(GCD_FRAMES)], ok |-> FALSE]
    ELSE IF state.grid[<<y, x>>] = WALL
    THEN [state |-> state, ok |-> FALSE]
    ELSE [state |-> [state EXCEPT !.grid[<<y, x>>] = WALL,
                                  !.wall_hp[<<y, x>>] = DEFAULT_WALL_HP,
                                  !.wall_pending[<<y, x>>] = TRUE,
                                  !.wall_armed[<<y, x>>] = FALSE],
          ok |-> TRUE]

\* faulty variant: the occupancy check is missing, a standing wall is replaced
place_wall_overwrite(state, y, x) ==
    IF y < 0 \/ y >= HEIGHT \/ x < 0 \/ x >= WIDTH \/ state.gcd # 0
    THEN [state |-> state, ok |-> FALSE]
    ELSE IF state.cell_cd[<<y, x>>] # 0
    THEN [state |-> state, ok |-> FALSE]
    ELSE [state |-> [state EXCEPT !.grid[<<y, x>>] = WALL,
                                  !.wall_hp[<<y, x>>] = DEFAULT_WALL_HP,
                                  !.wall_pending[<<y, x>>] = TRUE,
                                  !.wall_armed[<<y, x>>] = FALSE],
          ok |-> TRUE]

\* faulty variant: a new wall gets one hit point more than DEFAULT_WALL_HP
place_wall_sturdy(state, y, x) ==
    IF y < 0 \/ y >= HEIGHT \/ x < 0 \/ x >= WIDTH \/ state.gcd # 0
    THEN [state |-> state, ok |-> FALSE]
    ELSE IF state.cell_cd[<<y, x>>] # 0 \/ state.grid[<<y, x>>] = WALL
    THEN [state |-> state, ok |-> FALSE]
    ELSE [state |-> [state EXCEPT !.grid[<<y, x>>] = WALL,
                                  !.wall_hp[<<y, x>>] = DEFAULT_WALL_HP + 1,
                                  !.wall_pending[<<y, x>>] = TRUE,
                                  !.wall_armed[<<y, x>>] = FALSE],
          ok |-> TRUE]

\* faulty variant: no lower bounds check, a negative row indexes from the end of the
\* array as numpy does
place_wall_unchecked(state, y, x) ==
    LET c == <<IF y < 0 THEN y + HEIGHT ELSE y, x>> IN
    IF y < -HEIGHT \/ y >= HEIGHT \/ x < 0 \/ x >= WIDTH \/ state.gcd # 0
    THEN [state |-> state, ok |-> FALSE]
    ELSE IF state.cell_cd[c] # 0 \/ state.grid[c] = WALL
    THEN [state |-> state, ok |-> FALSE]
    ELSE [state |-> [state EXCEPT !.grid[c] = WALL,
                                  !.wall_hp[c] = DEFAULT_WALL_HP,
                                  !.wall_pending[c] = TRUE,
                                  !.wall_armed[c] = FALSE],
          ok |-> TRUE]

\* place_wall returns (state, placed): the state is untouched when a check fails
place_wall(state, y, x) ==
    IF y < 0 \/ y >= HEIGHT \/ x < 0 \/ x >= WIDTH
    THEN [state |-> state, ok |-> FALSE]
    ELSE IF state.gcd # 0
    THEN [state |-> state, ok |-> FALSE]
    ELSE IF state.cell_cd[<<y, x>>] # 0
    THEN [state |-> state, ok |-> FALSE]
    ELSE IF state.grid[<<y, x>>] = WALL
    THEN [state |-> state, ok |-> FALSE]
    ELSE [state |-> [state EXCEPT !.grid[<<y, x>>] = WALL,
                                  !.wall_hp[<<y, x>>] = DEFAULT_WALL_HP,
                                  !.wall_pending[<<y, x>>] = TRUE,
                                  !.wall_armed[<<y, x>>] = FALSE],
          ok |-> TRUE]

\* faulty variant: pending walls are left pending
arm_pending_walls_skip(state) == state

arm_pending_walls(state) ==
    [state EXCEPT
        !.wall_armed = Array([c \in Cells |-> state.wall_armed[c] \/ state.wall_pending[c]]),
        !.wall_pending = Array([c \in Cells |-> FALSE])]

(***************************************************************************)
(* The process-global generator (np.random); the core never names it.      *)
(***************************************************************************)
VARIABLES sims, obs, np_random
vars == <<sims, obs, np_random>>

(***************************************************************************)
(* Enemies                                                                 *)
(***************************************************************************)
\* faulty variant: the last dead slot is taken
last_dead_slot(state) ==
    IF \E i \in Slots : ~state.enemy_alive[i]
    THEN CHOOSE i \in Slots : /\ ~state.enemy_alive[i]
                              /\ \A j \in Slots : j > i => state.enemy_alive[j]
    ELSE 0

\* np.argmax(~enemy_alive): the first dead slot, 0 when there is none
first_dead_slot(state) ==
    IF \E i \in Slots : ~state.enemy_alive[i]
    THEN CHOOSE i \in Slots : /\ ~state.enemy_alive[i]
                              /\ \A j \in Slots : j < i => state.enemy_alive[j]
    ELSE 0

\* faulty variant: every simulation draws from one shared generator, that of the first one
spawn_enemy_aliased(state, current_tick, rng) ==
    LET slot == first_dead_slot(state) IN
    IF state.enemy_alive[slot]
    THEN [state |-> state, rng |-> rng, ok |-> FALSE]
    ELSE [state |-> [state EXCEPT !.enemy_y_half[slot] = 0,
                                  !.enemy_x[slot] = I16(integers(sims[1].rng)),
                                  !.enemy_alive[slot] = TRUE,
                                  !.enemy_type[slot] = ENEMY_TYPE_DROP,
                                  !.enemy_spawn_tick[slot] = current_tick],
          rng |-> advance(rng),
          ok |-> TRUE]

\* faulty variant: the column is drawn from the process-global generator
spawn_enemy_global(state, current_tick, rng) ==
    LET slot == first_dead_slot(state) IN
    IF state.enemy_alive[slot]
    THEN [state |-> state, rng |-> rng, ok |-> FALSE]
    ELSE [state |-> [state EXCEPT !.enemy_y_half[slot] = 0,
                                  !.enemy_x[slot] = I16(integers(np_random)),
                                  !.enemy_alive[slot] = TRUE,
                                  !.enemy_type[slot] = ENEMY_TYPE_DROP,
                                  !.enemy_spawn_tick[slot] = current_tick],
          rng |-> advance(rng),
          ok |-> TRUE]

\* faulty variant: the column depends on the pool as well, it is shifted by the number
\* of alive enemies
spawn_enemy_from_pool(state, current_tick, rng) ==
    LET slot == first_dead_slot(state)
        alive_count == Cardinality({i \in Slots : state.enemy_alive[i]})
    IN IF state.enemy_alive[slot]
       THEN [state |-> state, rng |-> rng, ok |-> FALSE]
       ELSE [state |-> [state EXCEPT !.enemy_y_half[slot] = 0,
                                     !.enemy_x[slot] = I16((integers(rng) + alive_count) % WIDTH),
                                     !.enemy_alive[slot] = TRUE,
                                     !.enemy_type[slot] = ENEMY_TYPE_DROP,
                                     !.enemy_spawn_tick[slot] = current_tick],
             rng |-> advance(rng),
             ok |-> TRUE]

\* spawn_enemy returns (state, rng, spawned); nothing is drawn when the pool is full
spawn_enemy(state, current_tick, rng) ==
    LET slot == first_dead_slot(state) IN
    IF state.enemy_alive[slot]
    THEN [state |-> state, rng |-> rng, ok |-> FALSE]
    ELSE [state |-> [state EXCEPT !.enemy_y_half[slot] = 0,
                                  !.enemy_x[slot] = I16(integers(rng)),
                                  !.enemy_alive[slot] = TRUE,
                                  !.enemy_type[slot] = ENEMY_TYPE_DROP,
                                  !.enemy_spawn_tick[slot] = current_tick],
          rng |-> advance(rng),
          ok |-> TRUE]

\* faulty variant: enemies advance two half-cells per tick
move_enemies_fast(state) ==
    [state EXCEPT !.enemy_y_half =
        Array([i \in Slots |-> IF state.enemy_alive[i]
                               THEN I16(state.enemy_y_half[i] + 2 * ENEMY_SPEED_HALF)
                               ELSE state.enemy_y_half[i]])]

\* faulty variant: the position is clamped to the core row
move_enemies_clamped(state) ==
    [state EXCEPT !.enemy_y_half =
        Array([i \in Slots |-> IF state.enemy_alive[i] /\ state.enemy_y_half[i] < CORE_Y_HALF
                               THEN I16(state.enemy_y_half[i] + ENEMY_SPEED_HALF)
                               ELSE state.enemy_y_half[i]])]

move_enemies(state) ==
    [state EXCEPT !.enemy_y_half =
        Array([i \in Slots |-> IF state.enemy_alive[i]
                         THEN I16(state.enemy_y_half[i] + ENEMY_SPEED_HALF)
                         ELSE state.enemy_y_half[i]])]

\* faulty variant: the key tells alive from dead only, so the alive slots keep their
\* slot order whatever their spawn ticks
sort_key_alive_only(state, i) ==
    IF state.enemy_alive[i] THEN 0 ELSE UINT32_MAX_KEY

\* sort key of compact_enemies: spawn_tick for alive slots, UINT32 max for dead ones
sort_key(state, i) ==
    IF state.enemy_alive[i] THEN state.enemy_spawn_tick[i] ELSE UINT32_MAX_KEY

\* np.argsort(sort_key, kind="stable"): position r holds the slot with r slots before it
sort_indices(state) ==
    LET key == Array([i \in Slots |-> sort_key(state, i)])
        rank == Array([i \in Slots |->
                    Cardinality({j \in Slots : \/ key[j] < key[i]
                                               \/ (key[j] = key[i] /\ j < i)})])
    IN Array([r \in Slots |-> CHOOSE i \in Slots : rank[i] = r])

\* faulty variant: the slots are counted but neither sorted nor zero-padded
compact_enemies_unsorted(state) ==
    [state |-> state,
     alive_count |-> Cardinality({r \in Slots : state.enemy_alive[r]})]

\* faulty variant: the slots are sorted but the trailing slots are not zeroed
compact_enemies_no_pad(state) ==
    LET idx == sort_indices(state) IN
    [state |->
       [ enemy_y_half     |-> Array([r \in Slots |-> state.enemy_y_half[idx[r]]]),
         enemy_x          |-> Array([r \in Slots |-> state.enemy_x[idx[r]]]),
         enemy_alive      |-> Array([r \in Slots |-> state.enemy_alive[idx[r]]]),
         enemy_type       |-> Array([r \in Slots |-> state.enemy_type[idx[r]]]),
         enemy_spawn_tick |-> Array([r \in Slots |-> state.enemy_spawn_tick[idx[r]]]) ],
     alive_count |-> Cardinality({r \in Slots : state.enemy_alive[r]})]

\* faulty variant: enemy_x is zero-padded but not permuted with the other arrays
compact_enemies_torn(state) ==
    LET idx == sort_indices(state)
        alive_count == Cardinality({r \in Slots : state.enemy_alive[r]})
    IN [state |->
          [ enemy_y_half     |-> Array([r \in Slots |-> IF r >= alive_count THEN 0 ELSE state.enemy_y_half[idx[r]]]),
            enemy_x          |-> Array([r \in Slots |-> IF r >= alive_count THEN 0 ELSE state.enemy_x[r]]),
            enemy_alive      |-> Array([r \in Slots |-> r < alive_count]),
            enemy_type       |-> Array([r \in Slots |-> IF r >= alive_count THEN 0 ELSE state.enemy_type[idx[r]]]),
            enemy_spawn_tick |-> Array([r \in Slots |-> IF r >= alive_count THEN 0 ELSE state.enemy_spawn_tick[idx[r]]]) ],
        alive_count |-> alive_count]

\* compact_enemies returns (state, alive_count)
compact_enemies(state) ==
    LET idx == sort_indices(state)
        y_half == Array([r \in Slots |-> state.enemy_y_half[idx[r]]])
        x == Array([r \in Slots |-> state.enemy_x[idx[r]]])
        alive == Array([r \in Slots |-> state.enemy_alive[idx[r]]])
        type == Array([r \in Slots |-> state.enemy_type[idx[r]]])
        spawn_tick == Array([r \in Slots |-> state.enemy_spawn_tick[idx[r]]])
        alive_count == Cardinality({r \in Slots : alive[r]})
    IN [state |->
          [ enemy_y_half     |-> Array([r \in Slots |-> IF r >= alive_count THEN 0 ELSE y_half[r]]),
            enemy_x          |-> Array([r \in Slots |-> IF r >= alive_count THEN 0 ELSE x[r]]),
            enemy_alive      |-> Array([r \in Slots |-> IF r >= alive_count THEN FALSE ELSE alive[r]]),
            enemy_type       |-> Array([r \in Slots |-> IF r >= alive_count THEN 0 ELSE type[r]]),
            enemy_spawn_tick |-> Array([r \in Slots |-> IF r >= alive_count THEN 0 ELSE spawn_tick[r]]) ],
        alive_count |-> alive_count]

(***************************************************************************)
(* Collision                                                               *)
(***************************************************************************)
\* cell_y = enemy_y_half // 2 (floor division)
cell_y(enemy_state, i) == enemy_state.enemy_y_half[i] \div 2

\* NumPy index normalisation: a negative index counts from the end
wrap_index(k, n) == IF k < 0 THEN k + n ELSE k

\* wall_armed[cell_y, enemy_x] is evaluated for every slot, alive or not;
\* an index outside [-n, n) raises IndexError
index_error(enemy_state) ==
    \E i \in Slots :
        \/ cell_y(enemy_state, i) < -HEIGHT \/ cell_y(enemy_state, i) >= HEIGHT
        \/ enemy_state.enemy_x[i] < -WIDTH \/ enemy_state.enemy_x[i] >= WIDTH

enemy_cell(enemy_state, i) ==
    << wrap_index(cell_y(enemy_state, i), HEIGHT),
       wrap_index(enemy_state.enemy_x[i], WIDTH) >>

\* faulty variant: any wall collides, armed or not
detect_collisions_any_wall(grid_state, enemy_state) ==
    Array([i \in Slots |-> /\ grid_state.grid[enemy_cell(enemy_state, i)] = WALL
                           /\ enemy_state.enemy_alive[i]])

\* faulty variant: the scan stops at the first dead slot, as if the pool were compacted
detect_collisions_prefix(grid_state, enemy_state) ==
    Array([i \in Slots |-> /\ grid_state.wall_armed[enemy_cell(enemy_state, i)]
                           /\ \A j \in 0 .. i : enemy_state.enemy_alive[j]])

\* the collision mask (defined when index_error is false)
detect_collisions(grid_state, enemy_state) ==
    Array([i \in Slots |-> /\ grid_state.wall_armed[enemy_cell(enemy_state, i)]
                     /\ enemy_state.enemy_alive[i]])

\* faulty variant: damage[cell_y, x] += 1 with plain indexing, duplicates count once
resolve_collisions_single_damage(grid_state, enemy_state, collisions) ==
    LET enemies == [enemy_state EXCEPT !.enemy_alive =
                        Array([i \in Slots |-> IF collisions[i] THEN FALSE
                                               ELSE enemy_state.enemy_alive[i]])]
        enemies_killed == Cardinality({i \in Slots : collisions[i]})
        damage == Array([c \in Cells |->
                      IF \E i \in Slots : collisions[i] /\ enemy_cell(enemy_state, i) = c
                      THEN 1 ELSE 0])
        destroyed == Array([c \in Cells |-> damage[c] > 0 /\ damage[c] >= grid_state.wall_hp[c]])
    IN [grid_state |->
          [grid_state EXCEPT
             !.grid = Array([c \in Cells |-> IF destroyed[c] THEN EMPTY ELSE grid_state.grid[c]]),
             !.wall_hp = Array([c \in Cells |-> IF destroyed[c] THEN 0
                                                ELSE grid_state.wall_hp[c] - damage[c]]),
             !.wall_armed = Array([c \in Cells |->
                                IF destroyed[c] THEN FALSE ELSE grid_state.wall_armed[c]]),
             !.wall_pending = Array([c \in Cells |->
                                IF destroyed[c] THEN FALSE ELSE grid_state.wall_pending[c]])],
        enemy_state |-> enemies,
        enemies_killed |-> enemies_killed,
        walls_destroyed |-> Cardinality({c \in Cells : destroyed[c]})]

\* faulty variant: a wall stops as many enemies as it has hit points, lowest slots
\* first; the enemies behind them pass
resolve_collisions_first_hit(grid_state, enemy_state, collisions) ==
    LET ahead(i) == Cardinality({j \in Slots : /\ j < i /\ collisions[j]
                                               /\ enemy_cell(enemy_state, j)
                                                     = enemy_cell(enemy_state, i)})
        hit == Array([i \in Slots |->
                   collisions[i] /\ ahead(i) < grid_state.wall_hp[enemy_cell(enemy_state, i)]])
        damage == Array([c \in Cells |->
                      Cardinality({i \in Slots : hit[i] /\ enemy_cell(enemy_state, i) = c})])
        destroyed == Array([c \in Cells |-> damage[c] > 0 /\ damage[c] >= grid_state.wall_hp[c]])
    IN [grid_state |->
          [grid_state EXCEPT
             !.grid = Array([c \in Cells |-> IF destroyed[c] THEN EMPTY ELSE grid_state.grid[c]]),
             !.wall_hp = Array([c \in Cells |-> IF destroyed[c] THEN 0
                                                ELSE grid_state.wall_hp[c] - damage[c]]),
             !.wall_armed = Array([c \in Cells |->
                                IF destroyed[c] THEN FALSE ELSE grid_state.wall_armed[c]]),
             !.wall_pending = Array([c \in Cells |->
                                IF destroyed[c] THEN FALSE ELSE grid_state.wall_pending[c]])],
        enemy_state |-> [enemy_state EXCEPT !.enemy_alive =
                            Array([i \in Slots |-> IF hit[i] THEN FALSE
                                                   ELSE enemy_state.enemy_alive[i]])],
        enemies_killed |-> Cardinality({i \in Slots : hit[i]}),
        walls_destroyed |-> Cardinality({c \in Cells : destroyed[c]})]

\* resolve_collisions returns (grid_state, enemy_state, enemies_killed, walls_destroyed)
resolve_collisions(grid_state, enemy_state, collisions) ==
    LET enemies == [enemy_state EXCEPT !.enemy_alive =
                        Array([i \in Slots |-> IF collisions[i] THEN FALSE
                                         ELSE enemy_state.enemy_alive[i]])]
        enemies_killed == Cardinality({i \in Slots : collisions[i]})
        damage == Array([c \in Cells |->
                      I8(Cardinality({i \in Slots : collisions[i]
                                         /\ enemy_cell(enemy_state, i) = c}))])
        destroyed == Array([c \in Cells |-> damage[c] > 0 /\ damage[c] >= grid_state.wall_hp[c]])
        new_hp == Array([c \in Cells |-> U8(Max(I16(grid_state.wall_hp[c] - damage[c]), 0))])
        walls_destroyed == Cardinality({c \in Cells : destroyed[c]})
    IN IF enemies_killed = 0
       THEN [grid_state |-> grid_state, enemy_state |-> enemies,
             enemies_killed |-> 0, walls_destroyed |-> 0]
       ELSE [grid_state |->
               [grid_state EXCEPT
                  !.grid = Array([c \in Cells |-> IF destroyed[c] THEN EMPTY ELSE grid_state.grid[c]]),
                  !.wall_hp = Array([c \in Cells |-> IF destroyed[c] THEN 0 ELSE new_hp[c]]),
                  !.wall_armed = Array([c \in Cells |->
                                     IF destroyed[c] THEN FALSE ELSE grid_state.wall_armed[c]]),
                  !.wall_pending = Array([c \in Cells |->
                                     IF destroyed[c] THEN FALSE ELSE grid_state.wall_pending[c]])],
             enemy_state |-> enemies,
             enemies_killed |-> enemies_killed,
             walls_destroyed |-> walls_destroyed]

\* faulty variant: the threshold comparison is strict
detect_core_breach_strict(enemy_state) ==
    \E i \in Slots : enemy_state.enemy_alive[i] /\ enemy_state.enemy_y_half[i] > CORE_Y_HALF

detect_core_breach(enemy_state) ==
    \E i \in Slots : enemy_state.enemy_alive[i] /\ enemy_state.enemy_y_half[i] >= CORE_Y_HALF

(***************************************************************************)
(* Step orchestrator                                                       *)
(***************************************************************************)
\* faulty variant: a surviving tick earns a bonus
compute_reward_bonus(enemies_killed, breached) ==
    (enemies_killed * REWARD_ENEMY_KILLED) + (IF breached THEN REWARD_CORE_BREACH ELSE 1)

\* phase 9: the reward of a tick
compute_reward(enemies_killed, breached) ==
    (enemies_killed * REWARD_ENEMY_KILLED) + REWARD_TICK_SURVIVED
    + (IF breached THEN REWARD_CORE_BREACH ELSE 0)

\* faulty variant: the schedule is read from the incremented tick
spawn_due_next(sim_state) ==
    /\ sim_state.spawn_interval > 0
    /\ (sim_state.tick + 1) % sim_state.spawn_interval = 0

\* phase 7: a spawn is due when spawning is enabled and the tick is a multiple of the interval
spawn_due(sim_state) ==
    /\ sim_state.spawn_interval > 0
    /\ sim_state.tick % sim_state.spawn_interval = 0

\* faulty variant: the budget comparison is strict
is_truncated_late(tick) == tick > MAX_EPISODE_TICKS

\* phase 11: the episode is truncated when the incremented tick reaches the budget
is_truncated(tick) == tick >= MAX_EPISODE_TICKS

\* why the placement of a step did not happen ("none": no attempt, or it succeeded)
reject_reason(g2, action, y, x, ok) ==
    IF action = NO_OP_ACTION \/ ok THEN "none"
    ELSE IF g2.gcd # 0 THEN "gcd"
    ELSE IF y < 0 \/ y >= HEIGHT \/ x < 0 \/ x >= WIDTH THEN "bounds"
    ELSE IF g2.cell_cd[<<y, x>>] # 0 THEN "cell_cd"
    ELSE "occupied"

\* step(sim_state, action): the simulation after the call, what the call returned
\* (reward, terminated, truncated) or that it raised, and the values of its locals.
\* The arrays are mutated in place, so a call that raises in detect_collisions
\* leaves the effects of phases 1 to 4 behind.
step(sim_state, action) ==
    LET g1 == tick_cooldowns(sim_state.grid_state)
        g2 == arm_pending_walls(g1)
        attempt == action # NO_OP_ACTION /\ g2.gcd = 0
        y == (action - 1) \div WIDTH
        x == (action - 1) % WIDTH
        pw == IF attempt THEN place_wall(g2, y, x) ELSE [state |-> g2, ok |-> FALSE]
        g3 == IF pw.ok THEN apply_cooldowns(pw.state, y, x) ELSE pw.state
        e1 == move_enemies(sim_state.enemy_state)
        collisions == detect_collisions(g3, e1)
        rc == resolve_collisions(g3, e1, collisions)
        breached == detect_core_breach(rc.enemy_state)
        due == spawn_due(sim_state)
        sp == IF due THEN spawn_enemy(rc.enemy_state, sim_state.tick, sim_state.rng)
              ELSE [state |-> rc.enemy_state, rng |-> sim_state.rng, ok |-> FALSE]
        ce == compact_enemies(sp.state)
        reward == compute_reward(rc.enemies_killed, breached)
        tick == sim_state.tick + 1
        at_core == {i \in Slots : e1.enemy_alive[i] /\ e1.enemy_y_half[i] >= CORE_Y_HALF}
        occupied == {enemy_cell(e1, i) : i \in {j \in Slots : e1.enemy_alive[j]}}
        reject == reject_reason(g2, action, y, x, pw.ok)
        armed == {c \in Cells : g3.wall_armed[c]}
        targets == IF pw.ok
                   THEN {<<<<y, x>>, sim_state.enemy_state.enemy_spawn_tick[i]>> :
                           i \in {j \in Slots :
                                    /\ sim_state.enemy_state.enemy_alive[j]
                                    /\ enemy_cell(sim_state.enemy_state, j) = <<y, x>>}}
                   ELSE {}
    IN IF index_error(e1)
       THEN [ sim |-> [sim_state EXCEPT !.grid_state = g3, !.enemy_state = e1],
              raised |-> TRUE,
              reward |-> 0, terminated |-> FALSE, truncated |-> FALSE,
              placement_success |-> pw.ok,
              placed |-> IF pw.ok THEN {<<y, x>>} ELSE {},
              reject |-> reject,
              armed |-> armed,
              targets |-> targets,
              killed |-> {},
              enemies_killed |-> 0,
              kill_cells |-> {},
              at_core |-> at_core,
              occupied |-> occupied,
              at_core_killed |-> {},
              breached |-> FALSE,
              spawn_due |-> FALSE,
              spawned |-> FALSE,
              alive_count |-> 0 ]
       ELSE [ sim |-> [ grid_state     |-> rc.grid_state,
                        enemy_state    |-> ce.state,
                        tick           |-> tick,
                        spawn_interval |-> sim_state.spawn_interval,
                        rng            |-> sp.rng ],
              raised |-> FALSE,
              reward |-> reward,
              terminated |-> breached,
              truncated |-> is_truncated(tick),
              placement_success |-> pw.ok,
              placed |-> IF pw.ok THEN {<<y, x>>} ELSE {},
              reject |-> reject,
              armed |-> armed,
              targets |-> targets,
              killed |-> {<<enemy_cell(e1, i), e1.enemy_spawn_tick[i]>> :
                            i \in {j \in Slots : collisions[j]}},
              enemies_killed |-> rc.enemies_killed,
              kill_cells |-> {enemy_cell(e1, i) : i \in {j \in Slots : collisions[j]}},
              at_core |-> at_core,
              occupied |-> occupied,
              at_core_killed |-> {i \in at_core : collisions[i]},
              breached |-> breached,
              spawn_due |-> due,
              spawned |-> sp.ok,
              alive_count |-> ce.alive_count ]

(***************************************************************************)
(* What a caller has seen of a simulation: the outcome of its last step    *)
(* call and a short history of the calls before it.                        *)
(***************************************************************************)
no_call ==
    [ calls |-> 0, action |-> NO_OP_ACTION, only_noop |-> TRUE,
      raised |-> FALSE, reward |-> 0, terminated |-> FALSE, truncated |-> FALSE,
      placement_success |-> FALSE, placed |-> {}, prev_placed |-> {},
      reject |-> "none", armed |-> {}, reactive |-> {}, killed |-> {},
      enemies_killed |-> 0, kill_cells |-> {},
      at_core |-> {}, occupied |-> {}, at_core_killed |-> {}, breached |-> FALSE,
      spawn_due |-> FALSE, spawned |-> FALSE, alive_count |-> 0,
      call_tick |-> -1, place_tick |-> -1, prev_place_tick |-> -1,
      ever_terminated |-> FALSE, terminated_before |-> FALSE ]

\* the record kept after step(sim_state, action) returned r, given the record o before it
observe(o, sim_state, action, r) ==
    [ calls |-> o.calls + 1,
      action |-> action,
      only_noop |-> o.only_noop /\ action = NO_OP_ACTION,
      raised |-> r.raised, reward |-> r.reward,
      terminated |-> r.terminated, truncated |-> r.truncated,
      placement_success |-> r.placement_success, placed |-> r.placed,
      prev_placed |-> o.placed,
      reject |-> r.reject, armed |-> r.armed,
      reactive |-> o.reactive \cup r.targets, killed |-> r.killed,
      enemies_killed |-> r.enemies_killed, kill_cells |-> r.kill_cells,
      at_core |-> r.at_core, occupied |-> r.occupied, at_core_killed |-> r.at_core_killed,
      breached |-> r.breached,
      spawn_due |-> r.spawn_due, spawned |-> r.spawned, alive_count |-> r.alive_count,
      call_tick |-> sim_state.tick,
      place_tick |-> IF r.placement_success THEN sim_state.tick ELSE o.place_tick,
      prev_place_tick |-> IF r.placement_success THEN o.place_tick ELSE o.prev_place_tick,
      ever_terminated |-> o.ever_terminated \/ r.terminated,
      terminated_before |-> o.ever_terminated ]

(***************************************************************************)
(* Inputs                                                                  *)
(***************************************************************************)
\* action of a cell: the inverse of (y, x) = divmod(action - 1, WIDTH)
encode_action(c) == 1 + c[1] * WIDTH + c[2]

\* the cells the explored agents place walls on
ActionCells == {<<8, 3>>, <<7, 8>>}
ActionSet == {NO_OP_ACTION} \cup {encode_action(c) : c \in ActionCells}

\* spawn intervals of the short episodes and of the full-length episodes
SpawnIntervals == {2, DEFAULT_SPAWN_INTERVAL}
EpisodeIntervals == {0, MAX_EPISODE_TICKS - CORE_Y_HALF - 1}

GlobalSeed == 7

(***************************************************************************)
(* Actions                                                                 *)
(***************************************************************************)
InitWith(intervals) ==
    /\ \E si \in intervals, seed \in Seeds :
          sims = [i \in Sims |-> create_simulation_state(si, seed)]
    /\ obs = [i \in Sims |-> no_call]
    /\ np_random = default_rng(GlobalSeed)

\* one call step(sims[i], a); a simulation whose step raised is not stepped again
Call(i, a) ==
    /\ ~obs[i].raised
    /\ LET r == step(sims[i], a) IN
          /\ sims' = [sims EXCEPT ![i] = r.sim]
          /\ obs' = [obs EXCEPT ![i] = observe(obs[i], sims[i], a, r)]
    /\ UNCHANGED np_random

Init == InitWith(SpawnIntervals)

Step(a) ==
    /\ sims[1].tick < MaxTick
    /\ Call(1, a)

Next == \E a \in ActionSet : Step(a)

Spec == Init /\ [][Next]_vars

(***************************************************************************)
(* Full-length episodes: few placements, then NO-OP up to the tick budget  *)
(***************************************************************************)
EpisodeActions == {NO_OP_ACTION, encode_action(<<8, 3>>)}

InitEpisode == InitWith(EpisodeIntervals)

EpisodeStep(a) ==
    /\ sims[1].tick < MAX_EPISODE_TICKS + MaxOverrun
    /\ a # NO_OP_ACTION => sims[1].tick < MaxActTick
    /\ Call(1, a)

NextEpisode == \E a \in EpisodeActions : EpisodeStep(a)

SpecEpisode == InitEpisode /\ [][NextEpisode]_vars

(***************************************************************************)
(* The first ticks of an episode for a range of spawn intervals            *)
(***************************************************************************)
\* an enemy every tick, every other tick, one at tick 16 as well, one after the
\* breach, and the default
BreachIntervals == {1, 2, CORE_Y_HALF, CORE_Y_HALF + 1, DEFAULT_SPAWN_INTERVAL}

BreachStep(a) ==
    /\ sims[1].tick < MaxTick
    /\ a # NO_OP_ACTION => sims[1].tick < MaxActTick
    /\ Call(1, a)

NextBreach == \E a \in EpisodeActions : BreachStep(a)

SpecBreach == InitWith(BreachIntervals) /\ [][NextBreach]_vars

(***************************************************************************)
(* One cell over a whole cell cooldown: after a first placement in the     *)
(* first ticks the agent may try the cell again in every step              *)
(***************************************************************************)
CooldownCell == <<8, 3>>

CooldownStep(a) ==
    /\ sims[1].tick < CELL_CD_FRAMES + MaxCooldownOverrun
    /\ a # NO_OP_ACTION => (sims[1].tick < MaxActTick \/ obs[1].place_tick >= 0)
    /\ Call(1, a)

NextCooldown == \E a \in {NO_OP_ACTION, encode_action(CooldownCell)} : CooldownStep(a)

SpecCooldown == InitEpisode /\ [][NextCooldown]_vars

(***************************************************************************)
(* A caller that also passes action numbers outside [0, NUM_ACTIONS)       *)
(***************************************************************************)
NUM_ACTIONS == HEIGHT * WIDTH + 1

\* the nearest numbers on both sides of the range, and numbers whose decoded column
\* and row would fit a cell if the row were taken modulo HEIGHT
OutOfRangeActions ==
    {-1, -WIDTH, -(WIDTH + 1), NUM_ACTIONS, NUM_ACTIONS + 3, NUM_ACTIONS + HEIGHT * WIDTH - 1}

RangeStep(a) ==
    /\ sims[1].tick < MaxTick
    /\ Call(1, a)

NextRange ==
    \E a \in {NO_OP_ACTION, encode_action(CooldownCell)} \cup OutOfRangeActions : RangeStep(a)

SpecRange == InitWith({2}) /\ [][NextRange]_vars

(***************************************************************************)
(* An agent that walls up the grid cell after cell, as fast as the global  *)
(* cooldown lets it, for longer than one cell cooldown; no enemies         *)
(***************************************************************************)
\* the agent may idle in the first MaxActTick ticks of every IdlePeriod ticks, and
\* whenever the global cooldown would reject it anyway
IdlePeriod == 4 * GCD_FRAMES + 1

\* the next cell of the agent, in row-major order: as many cells before it as walls placed
next_cell(grid_state) ==
    LET n == Cardinality({c \in Cells : grid_state.grid[c] = WALL})
    IN <<n \div WIDTH, n % WIDTH>>

SpacingStep(a) ==
    /\ sims[1].tick < CELL_CD_FRAMES + GCD_FRAMES + MaxCooldownOverrun
    /\ a = NO_OP_ACTION =>
          (sims[1].grid_state.gcd > 1 \/ sims[1].tick % IdlePeriod < MaxActTick)
    /\ a # NO_OP_ACTION => a = encode_action(next_cell(sims[1].grid_state))
    /\ Call(1, a)

NextSpacing == \E a \in 0 .. (HEIGHT * WIDTH) : SpacingStep(a)

\* spawning is disabled, so the generator is never drawn from: one seed
InitSpacing ==
    /\ sims = [i \in Sims |-> create_simulation_state(0, 42)]
    /\ obs = [i \in Sims |-> no_call]
    /\ np_random = default_rng(GlobalSeed)

SpecSpacing == InitSpacing /\ [][NextSpacing]_vars

(***************************************************************************)
(* Two simulations built with the same arguments and stepped with the same *)
(* actions, the first one first                                            *)
(***************************************************************************)
PairActions == {NO_OP_ACTION, encode_action(<<1, 3>>)}

StepFirst(a) ==
    /\ obs[1].calls = obs[2].calls
    /\ sims[1].tick < MaxTick
    /\ Call(1, a)

StepSecond ==
    /\ obs[2].calls < obs[1].calls
    /\ Call(2, obs[1].action)

NextPair == (\E a \in PairActions : StepFirst(a)) \/ StepSecond

SpecPair == Init /\ [][NextPair]_vars

(***************************************************************************)
(* spawn_enemy called directly on a slot pool, as the unit tests do: the    *)
(* pool is filled by hand, slots are killed by clearing their alive flag    *)
(***************************************************************************)
\* the sets of alive slots of the pools the calls start from
PoolAlive ==
    { {}, {0}, 0 .. 2, {1, 2}, {0, 2, 3},
      Slots, Slots \ {0}, Slots \ {7}, Slots \ {MAX_ENEMIES - 1}, Slots \ {5, 11} }

\* a pool with the given alive slots; a dead slot keeps the fields of the enemy that
\* last stood in it, as between the collision phase and the compaction of a step
make_pool(alive) ==
    [ enemy_y_half     |-> Array([i \in Slots |-> (7 * i + 3) % CORE_Y_HALF]),
      enemy_x          |-> Array([i \in Slots |-> (4 * i + 1) % WIDTH]),
      enemy_alive      |-> Array([i \in Slots |-> i \in alive]),
      enemy_type       |-> Array([i \in Slots |-> ENEMY_TYPE_DROP]),
      enemy_spawn_tick |-> Array([i \in Slots |-> 2 * i + 1]) ]

CurrentTicks == {0, DEFAULT_SPAWN_INTERVAL}
KillSlots == {0, 7}

\* the record of a direct call: its arguments' state before it and what it returned
unit_call(o, op, pre, ok, arg) ==
    [ calls |-> o.calls + 1, op |-> op, pre |-> pre, ok |-> ok, arg |-> arg ]

InitSpawn ==
    /\ \E alive \in PoolAlive, seed \in Seeds :
          sims = [i \in Sims |->
                    [create_simulation_state(DEFAULT_SPAWN_INTERVAL, seed)
                        EXCEPT !.enemy_state = make_pool(alive)]]
    /\ obs = [i \in Sims |-> [calls |-> 0, op |-> "none"]]
    /\ np_random = default_rng(GlobalSeed)

\* success = spawn_enemy(state, current_tick, rng)
CallSpawnEnemy(current_tick) ==
    /\ obs[1].calls < MaxSpawnCalls
    /\ LET r == spawn_enemy(sims[1].enemy_state, current_tick, sims[1].rng) IN
          /\ sims' = [sims EXCEPT ![1].enemy_state = r.state, ![1].rng = r.rng]
          /\ obs' = [obs EXCEPT ![1] =
                        unit_call(obs[1], "spawn_enemy", sims[1], r.ok, current_tick)]
    /\ UNCHANGED np_random

\* state.enemy_alive[i] = False
KillSlot(i) ==
    /\ obs[1].calls < MaxSpawnCalls
    /\ sims[1].enemy_state.enemy_alive[i]
    /\ sims' = [sims EXCEPT ![1].enemy_state.enemy_alive[i] = FALSE]
    /\ obs' = [obs EXCEPT ![1] = unit_call(obs[1], "kill", sims[1], TRUE, i)]
    /\ UNCHANGED np_random

NextSpawn ==
    \/ \E t \in CurrentTicks : CallSpawnEnemy(t)
    \/ \E i \in KillSlots : KillSlot(i)

SpecSpawn == InitSpawn /\ [][NextSpawn]_vars

(***************************************************************************)
(* place_wall called directly on a grid state, as the unit tests do: the    *)
(* cooldowns and the walls are set up by hand                               *)
(***************************************************************************)
\* what stands on a cell: nothing, nothing but a running cell cooldown (its wall was
\* destroyed), an armed wall whose cooldown still runs, an armed wall older than it
CellSetups == {"empty", "cooling", "armed", "old"}

set_cell(state, c, setup) ==
    IF setup = "empty" THEN state
    ELSE IF setup = "cooling" THEN [state EXCEPT !.cell_cd[c] = 50]
    ELSE [state EXCEPT !.grid[c] = WALL,
                       !.wall_hp[c] = DEFAULT_WALL_HP,
                       !.wall_armed[c] = TRUE,
                       !.cell_cd[c] = IF setup = "armed" THEN CELL_CD_FRAMES - GCD_FRAMES ELSE 0]

\* the two cells set up, the global cooldowns, and the coordinates passed
SetupCells == <<(<<4, 6>>), (<<8, 12>>)>>
SetupGcd == {0, 1, GCD_FRAMES}
PlaceArgs ==
    { <<-1, 6>>, <<HEIGHT, 6>>, <<4, -1>>, <<4, WIDTH>>, <<4, 6>>, <<8, 12>> }

InitPlace ==
    /\ \E s1 \in CellSetups, s2 \in CellSetups, gcd \in SetupGcd, seed \in Seeds :
          sims = [i \in Sims |->
                    [create_simulation_state(DEFAULT_SPAWN_INTERVAL, seed)
                        EXCEPT !.grid_state =
                            [set_cell(set_cell(create_grid_state, SetupCells[1], s1),
                                      SetupCells[2], s2)
                                EXCEPT !.gcd = gcd]]]
    /\ obs = [i \in Sims |-> [calls |-> 0, op |-> "none"]]
    /\ np_random = default_rng(GlobalSeed)

\* success = place_wall(state, y, x)
CallPlaceWall(y, x) ==
    /\ obs[1].calls < MaxPlaceCalls
    /\ LET r == place_wall(sims[1].grid_state, y, x) IN
          /\ sims' = [sims EXCEPT ![1].grid_state = r.state]
          /\ obs' = [obs EXCEPT ![1] =
                        unit_call(obs[1], "place_wall", sims[1], r.ok, <<y, x>>)]
    /\ UNCHANGED np_random

\* tick_cooldowns(state)
CallTickCooldowns ==
    /\ obs[1].calls < MaxPlaceCalls
    /\ sims' = [sims EXCEPT ![1].grid_state = tick_cooldowns(sims[1].grid_state)]
    /\ obs' = [obs EXCEPT ![1] = unit_call(obs[1], "tick_cooldowns", sims[1], TRUE, <<>>)]
    /\ UNCHANGED np_random

NextPlace ==
    \/ \E a \in PlaceArgs : CallPlaceWall(a[1], a[2])
    \/ CallTickCooldowns

SpecPlace == InitPlace /\ [][NextPlace]_vars

(***************************************************************************)
(* Two independent simulations whose steps are interleaved in any order,    *)
(* each compared with the same simulation run alone                         *)
(***************************************************************************)
InterleaveIntervals == {1, 2}

\* the actions of a run: a wall on the top row in the first step, NO-OP afterwards
scripted_action(sim_state) ==
    IF sim_state.tick = 0 THEN encode_action(<<0, 8>>) ELSE NO_OP_ACTION

\* the baseline: the simulation after n scripted steps made on it alone
RECURSIVE baseline(_, _)
baseline(sim_state, n) ==
    IF n = 0 THEN sim_state
    ELSE LET prev == baseline(sim_state, n - 1)
         IN step(prev, scripted_action(prev)).sim

InitInterleave ==
    /\ \E si \in [Sims -> InterleaveIntervals], seed \in [Sims -> Seeds] :
          sims = [i \in Sims |-> create_simulation_state(si[i], seed[i])]
    /\ obs = [i \in Sims |-> no_call]
    /\ np_random = default_rng(GlobalSeed)

StepSim(i) ==
    /\ obs[i].calls < MaxInterleaveCalls
    /\ Call(i, scripted_action(sims[i]))

NextInterleave == \E i \in Sims : StepSim(i)

SpecInterleave == InitInterleave /\ [][NextInterleave]_vars

(***************************************************************************)
(* Two simulations built with the same arguments and stepped in turn with  *)
(* different actions: the first with any placements on one cell, the       *)
(* second with the scripted actions                                        *)
(***************************************************************************)
ActStep(a) ==
    /\ obs[1].calls = obs[2].calls
    /\ sims[1].tick < MaxTick
    /\ Call(1, a)

FollowStep ==
    /\ obs[2].calls < obs[1].calls
    /\ Call(2, scripted_action(sims[2]))

NextActions ==
    \/ \E a \in {NO_OP_ACTION, encode_action(CooldownCell)} : ActStep(a)
    \/ FollowStep

SpecActions == InitWith({2}) /\ [][NextActions]_vars

(***************************************************************************)
(* A seeded simulation stepped while other code reseeds and draws from the  *)
(* process-global generator                                                 *)
(***************************************************************************)
GlobalSeeds == {GlobalSeed, 42}

\* np.random.seed(seed)
SeedGlobal(seed) ==
    /\ np_random # default_rng(seed)
    /\ np_random' = default_rng(seed)
    /\ UNCHANGED <<sims, obs>>

\* np.random.randint(0, 1000)
DrawGlobal ==
    /\ np_random.pos < MaxGlobalDraws
    /\ np_random' = advance(np_random)
    /\ UNCHANGED <<sims, obs>>

NextGlobal ==
    \/ StepSim(1)
    \/ \E seed \in GlobalSeeds : SeedGlobal(seed)
    \/ DrawGlobal

SpecGlobal == InitInterleave /\ [][NextGlobal]_vars

(***************************************************************************)
(* detect_collisions and resolve_collisions called directly on a grid and a *)
(* slot pool set up by hand, as the unit tests do                           *)
(***************************************************************************)
\* the walls set up: 0 for no wall, PendingWall for a pending wall (placed this tick, one hit
\* point), h in 1 .. MaxWallHp for an armed wall with h hit points
PendingWall == -1
WallSetups == {0, PendingWall} \cup (1 .. MaxWallHp)

set_wall(state, c, setup) ==
    IF setup = 0 THEN state
    ELSE IF setup = PendingWall
    THEN [state EXCEPT !.grid[c] = WALL, !.wall_hp[c] = DEFAULT_WALL_HP,
                       !.wall_pending[c] = TRUE]
    ELSE [state EXCEPT !.grid[c] = WALL, !.wall_hp[c] = setup, !.wall_armed[c] = TRUE]

\* the two cells the enemies are put on, and the cell of the zeroed dead slots
WallCells == <<(<<4, 6>>), (<<8, 12>>), (<<0, 0>>)>>

\* slot pools as (y_half, x, alive) per slot from slot 0 on; the slots behind are zero
EnemyLayouts ==
    { <<(<<8, 6, TRUE>>), (<<9, 6, TRUE>>), (<<8, 6, TRUE>>)>>,
      <<(<<9, 6, TRUE>>), (<<8, 6, FALSE>>), (<<17, 12, TRUE>>), (<<16, 12, TRUE>>)>>,
      <<(<<1, 0, TRUE>>), (<<8, 3, TRUE>>), (<<16, 12, FALSE>>)>>,
      <<(<<8, 6, FALSE>>)>>,
      <<(<<8, 6, TRUE>>), (<<9, 6, TRUE>>), (<<4, 3, TRUE>>), (<<9, 6, TRUE>>), (<<8, 6, TRUE>>)>>,
      <<(<<7, 6, TRUE>>), (<<10, 6, TRUE>>), (<<8, 6, TRUE>>), (<<8, 5, TRUE>>)>> }

make_enemies(layout) ==
    LET n == Len(layout) IN
    [ enemy_y_half     |-> Array([i \in Slots |-> IF i < n THEN layout[i + 1][1] ELSE 0]),
      enemy_x          |-> Array([i \in Slots |-> IF i < n THEN layout[i + 1][2] ELSE 0]),
      enemy_alive      |-> Array([i \in Slots |-> IF i < n THEN layout[i + 1][3] ELSE FALSE]),
      enemy_type       |-> Array([i \in Slots |-> ENEMY_TYPE_DROP]),
      enemy_spawn_tick |-> Array([i \in Slots |-> IF i < n THEN 10 + i ELSE 0]) ]

\* slot permutations: slot i of the permuted pool holds slot pi[i] of the original
SlotPermutations ==
    { [i \in Slots |-> MAX_ENEMIES - 1 - i],
      [i \in Slots |-> (i + 1) % MAX_ENEMIES],
      [i \in Slots |-> IF i = 0 THEN 2 ELSE IF i = 2 THEN 0 ELSE i] }

permute(enemy_state, pi) ==
    [ enemy_y_half     |-> Array([i \in Slots |-> enemy_state.enemy_y_half[pi[i]]]),
      enemy_x          |-> Array([i \in Slots |-> enemy_state.enemy_x[pi[i]]]),
      enemy_alive      |-> Array([i \in Slots |-> enemy_state.enemy_alive[pi[i]]]),
      enemy_type       |-> Array([i \in Slots |-> enemy_state.enemy_type[pi[i]]]),
      enemy_spawn_tick |-> Array([i \in Slots |-> enemy_state.enemy_spawn_tick[pi[i]]]) ]

InitCollision ==
    /\ \E w1 \in WallSetups, w2 \in {0, PendingWall, DEFAULT_WALL_HP},
          w3 \in {0, DEFAULT_WALL_HP}, layout \in EnemyLayouts :
          sims = [i \in Sims |->
                    [create_simulation_state(DEFAULT_SPAWN_INTERVAL, 42) EXCEPT
                        !.grid_state = set_wall(set_wall(set_wall(create_grid_state,
                                           WallCells[1], w1), WallCells[2], w2),
                                           WallCells[3], w3),
                        !.enemy_state = make_enemies(layout)]]
    /\ obs = [i \in Sims |-> [calls |-> 0, op |-> "none"]]
    /\ np_random = default_rng(GlobalSeed)

\* collisions = detect_collisions(grid, enemies)
CallDetectCollisions ==
    /\ obs[1].calls < MaxCollisionCalls
    /\ obs[1].op # "detect_collisions"
    /\ ~index_error(sims[1].enemy_state)
    /\ obs' = [obs EXCEPT ![1] =
                  unit_call(obs[1], "detect_collisions", sims[1],
                            detect_collisions(sims[1].grid_state, sims[1].enemy_state), <<>>)]
    /\ UNCHANGED <<sims, np_random>>

\* enemies_killed, walls_destroyed = resolve_collisions(grid, enemies, collisions)
CallResolveCollisions ==
    /\ obs[1].op = "detect_collisions"
    /\ LET r == resolve_collisions(sims[1].grid_state, sims[1].enemy_state, obs[1].ok) IN
          /\ sims' = [sims EXCEPT ![1].grid_state = r.grid_state,
                                  ![1].enemy_state = r.enemy_state]
          /\ obs' = [obs EXCEPT ![1] =
                        unit_call(obs[1], "resolve_collisions", sims[1],
                                  <<r.enemies_killed, r.walls_destroyed>>, obs[1].ok)]
    /\ UNCHANGED np_random

NextCollision == CallDetectCollisions \/ CallResolveCollisions

SpecCollision == InitCollision /\ [][NextCollision]_vars

(***************************************************************************)
(* compact_enemies called directly on a slot pool, as the unit tests do     *)
(***************************************************************************)
\* what a slot holds: nothing (zeroed), the fields of an enemy that died in it, or
\* an alive enemy spawned at tick 0, 30 or 60
DeadSlot == 0
StaleSlot == -1
SlotSetups == {DeadSlot, StaleSlot, 1, 2, 3}

setup_tick(s) == IF s = StaleSlot THEN DEFAULT_SPAWN_INTERVAL
                 ELSE IF s = DeadSlot THEN 0 ELSE DEFAULT_SPAWN_INTERVAL * (s - 1)

\* the slots that are set up: the first four and the last one; the others are zero
CompactSlots == <<0, 1, 2, 3, MAX_ENEMIES - 1>>

\* enemies in slots of equal parity share their column and row, so that two slots can
\* hold one and the same record
make_compact_pool(setups) ==
    LET setup == [i \in Slots |->
                    IF \E k \in 1 .. Len(CompactSlots) : CompactSlots[k] = i
                    THEN setups[CHOOSE k \in 1 .. Len(CompactSlots) : CompactSlots[k] = i]
                    ELSE DeadSlot]
    IN [ enemy_y_half     |-> Array([i \in Slots |-> IF setup[i] = DeadSlot THEN 0 ELSE 4]),
         enemy_x          |-> Array([i \in Slots |-> IF setup[i] = DeadSlot THEN 0 ELSE 1 + 5 * (i % 2)]),
         enemy_alive      |-> Array([i \in Slots |-> setup[i] >= 1]),
         enemy_type       |-> Array([i \in Slots |-> ENEMY_TYPE_DROP]),
         enemy_spawn_tick |-> Array([i \in Slots |-> setup_tick(setup[i])]) ]

InitCompact ==
    /\ \E s0 \in SlotSetups, s1 \in SlotSetups, s2 \in SlotSetups, s3 \in SlotSetups,
          s19 \in {DeadSlot, 2} :
          sims = [i \in Sims |->
                    [create_simulation_state(DEFAULT_SPAWN_INTERVAL, 42) EXCEPT
                        !.enemy_state = make_compact_pool(<<s0, s1, s2, s3, s19>>)]]
    /\ obs = [i \in Sims |-> [calls |-> 0, op |-> "none"]]
    /\ np_random = default_rng(GlobalSeed)

\* alive_count = compact_enemies(state)
CallCompactEnemies ==
    /\ obs[1].calls < MaxCompactCalls
    /\ LET r == compact_enemies(sims[1].enemy_state) IN
          /\ sims' = [sims EXCEPT ![1].enemy_state = r.state]
          /\ obs' = [obs EXCEPT ![1] =
                        unit_call(obs[1], "compact_enemies", sims[1], r.alive_count, <<>>)]
    /\ UNCHANGED np_random

NextCompact == CallCompactEnemies

SpecCompact == InitCompact /\ [][NextCompact]_vars

(***************************************************************************)
(* Properties                                                              *)
(***************************************************************************)
\* the last step call on simulation i returned its tuple
Returned(i) == obs[i].calls > 0 /\ ~obs[i].raised

G == sims[1].grid_state
E == sims[1].enemy_state

C2_ArmingDelay ==
    [][\A c \in obs'[1].kill_cells :
          /\ c \notin obs'[1].placed
          /\ sims[1].grid_state.grid[c] = WALL
          /\ (sims[1].grid_state.wall_armed[c] \/ sims[1].grid_state.wall_pending[c])]_vars

\* a step placed a wall on the cell an alive enemy stood on in its collision phase,
\* and that enemy was not killed there
C2_Witness ==
    /\ Returned(1)
    /\ obs[1].placement_success
    /\ obs[1].placed \cap obs[1].occupied # {}
    /\ obs[1].placed \cap obs[1].kill_cells = {}
    /\ \E c \in obs[1].placed : G.wall_pending[c]

\* C3 -- Global cooldown length as claimed: two successful placements are at least
\* GCD_FRAMES + 1 ticks apart (after a placement at tick t the next can succeed at
\* t + 11 at the earliest).
C3_NextPlacementAtT11 ==
    obs[1].prev_place_tick >= 0 =>
        obs[1].place_tick - obs[1].prev_place_tick >= GCD_FRAMES + 1

\* C4 -- Wall-flag consistency: for every cell wall_hp > 0 iff grid = 1, wall_armed
\* implies grid = 1, and wall_pending implies grid = 1 and not wall_armed.
C4_WallFlagConsistency ==
    \A c \in Cells :
        /\ (G.wall_hp[c] > 0) <=> (G.grid[c] = WALL)
        /\ G.wall_armed[c] => G.grid[c] = WALL
        /\ G.wall_pending[c] => (G.grid[c] = WALL /\ ~G.wall_armed[c])

\* the step destroyed one wall in a collision while another wall is armed and
\* a third cell, or the same step's placement, is pending
C4_Witness ==
    /\ Returned(1)
    /\ obs[1].enemies_killed > 0
    /\ \E c \in obs[1].kill_cells : G.grid[c] = EMPTY /\ G.wall_hp[c] = 0
    /\ \E c \in Cells : G.wall_armed[c] \/ G.wall_pending[c]

\* the slot arrays are compacted: a prefix of alive slots in spawn order
Compacted(enemy_state) ==
    \E K \in 0 .. MAX_ENEMIES :
        /\ \A i \in Slots : enemy_state.enemy_alive[i] <=> i < K
        /\ \A i, j \in Slots :
              (i < j /\ j < K) =>
                  enemy_state.enemy_spawn_tick[i] <= enemy_state.enemy_spawn_tick[j]

\* C5 -- Compaction invariant: at the end of every step there is K in [0, 20] with
\* alive[0..K) true, alive[K..20) false and spawn_tick non-decreasing over [0, K).
C5_Compaction == Returned(1) => Compacted(E)

\* a step killed the oldest enemy and spawned a new one, which took the freed slot 0
\* and was then moved behind the survivors
C5_Witness ==
    /\ Returned(1)
    /\ obs[1].enemies_killed > 0
    /\ obs[1].spawned
    /\ obs[1].alive_count >= 2
    /\ E.enemy_spawn_tick[obs[1].alive_count - 1] = obs[1].call_tick

\* C6 -- Termination flags: terminated iff some alive enemy has y_half >= 16 after
\* the step, truncated iff the tick after the increment is >= MAX_EPISODE_TICKS.
C6_TerminationFlags ==
    Returned(1) =>
        /\ obs[1].terminated <=>
              (\E i \in Slots : E.enemy_alive[i] /\ E.enemy_y_half[i] >= CORE_Y_HALF)
        /\ obs[1].truncated <=> (sims[1].tick >= MAX_EPISODE_TICKS)

\* both flags are true in one step: a breach in the step of tick 999
C6_Witness ==
    /\ Returned(1)
    /\ obs[1].terminated
    /\ obs[1].truncated
    /\ sims[1].tick = MAX_EPISODE_TICKS

S1Run ==
    /\ sims[1].spawn_interval = DEFAULT_SPAWN_INTERVAL
    /\ sims[1].rng.seed = 42
    /\ obs[1].only_noop
    /\ obs[1].calls > 0

\* C8 -- scenario S1 as claimed: each of the first 100 NO-OP steps completes,
\* without a kill and without a breach (reward 0, terminated false).
C8_S1NoBreach ==
    (S1Run /\ obs[1].calls <= 100) =>
        /\ Returned(1)
        /\ obs[1].reward = 0
        /\ ~obs[1].terminated
        /\ obs[1].enemies_killed = 0

\* C8 -- amended: the first 16 NO-OP steps return (0, false, false) with exactly one
\* enemy alive (spawned at tick 0) and no kill; the 17th step returns reward -1 and
\* terminated = true, that enemy standing at y_half = 16.
C8_S1BreachAtStep17 ==
    S1Run =>
        /\ obs[1].calls <= 16 =>
              /\ Returned(1)
              /\ obs[1].reward = 0 /\ ~obs[1].terminated /\ ~obs[1].truncated
              /\ obs[1].enemies_killed = 0
              /\ obs[1].alive_count = 1
              /\ E.enemy_alive[0] /\ E.enemy_spawn_tick[0] = 0
              /\ E.enemy_y_half[0] = obs[1].calls - 1
        /\ obs[1].calls = 17 =>
              /\ Returned(1)
              /\ obs[1].reward = -1 /\ obs[1].terminated /\ ~obs[1].truncated
              /\ obs[1].enemies_killed = 0
              /\ obs[1].alive_count = 1
              /\ E.enemy_y_half[0] = CORE_Y_HALF

\* the 17th NO-OP step of scenario S1 has returned
C8_Witness == S1Run /\ obs[1].calls = 17 /\ Returned(1) /\ sims[1].tick = 17

\* C9 -- Nothing raises: every step call on a reachable state returns its tuple
\* (the collision lookup row of every slot stays inside [0, 9)).
C9_NothingRaises ==
    /\ ~obs[1].raised
    /\ \A i \in Slots : cell_y(E, i) >= 0 /\ cell_y(E, i) < HEIGHT

\* C10 -- Reward law: the reward of a step is the number of enemies killed in its
\* collision phase minus 1 if a breach was detected; nothing else contributes.
C10_RewardLaw ==
    Returned(1) =>
        obs[1].reward = obs[1].enemies_killed - (IF obs[1].breached THEN 1 ELSE 0)

\* a step with a placement action in which one enemy was killed and another breached
C10_Witness ==
    /\ Returned(1)
    /\ obs[1].enemies_killed = 1
    /\ obs[1].breached
    /\ obs[1].reward = 0
    /\ obs[1].action # NO_OP_ACTION

\* the grid state a step works on after its cooldown and arming phases
AfterTick(sim_state) == arm_pending_walls(tick_cooldowns(sim_state.grid_state))

\* the wall fields of a cell
WallFields(grid_state, c) ==
    <<grid_state.grid[c], grid_state.wall_hp[c], grid_state.wall_armed[c],
      grid_state.wall_pending[c], grid_state.cell_cd[c]>>

\* C11 -- Placement step post-state: in a step whose action a # 0 decodes to a cell
\* (y, x) and for which, after the cooldown decrement, gcd = 0, cell_cd[y,x] = 0 and
\* grid[y,x] = 0, the state after the step has grid = 1, wall_hp = 1, wall_pending,
\* not wall_armed, cell_cd = 150 on that cell and gcd = 10; every other cell has the
\* wall fields a NO-OP step from the same state gives it, and the outcome (reward,
\* terminated, truncated, or the exception) is that of the NO-OP step.
C11_PlacementPostState ==
    [][LET a == obs'[1].action
           c == <<(a - 1) \div WIDTH, (a - 1) % WIDTH>>
           g == AfterTick(sims[1])
           noop == step(sims[1], NO_OP_ACTION)
       IN (a # NO_OP_ACTION /\ c \in Cells
             /\ g.gcd = 0 /\ g.cell_cd[c] = 0 /\ g.grid[c] = EMPTY) =>
          /\ WallFields(sims'[1].grid_state, c) = <<WALL, 1, FALSE, TRUE, 150>>
          /\ sims'[1].grid_state.gcd = 10
          /\ \A d \in Cells \ {c} :
                WallFields(sims'[1].grid_state, d) = WallFields(noop.sim.grid_state, d)
          /\ sims'[1].enemy_state = noop.sim.enemy_state
          /\ sims'[1].tick = noop.sim.tick /\ sims'[1].rng = noop.sim.rng
          /\ <<obs'[1].raised, obs'[1].reward, obs'[1].terminated, obs'[1].truncated>>
                = <<noop.raised, noop.reward, noop.terminated, noop.truncated>>]_vars

\* a step placed a wall while another wall killed an enemy: the new wall is pending,
\* both cooldowns are started and the step's reward is that of the kill
C11_Witness ==
    /\ Returned(1)
    /\ obs[1].placement_success
    /\ obs[1].enemies_killed > 0
    /\ obs[1].reward > 0
    /\ G.gcd = GCD_FRAMES
    /\ \E c \in obs[1].placed : G.wall_pending[c] /\ G.cell_cd[c] = CELL_CD_FRAMES

\* C12 -- Arming on the next tick: a wall placed in the step at tick t is, in the step
\* at tick t+1, armed and not pending on entry to the collision phase (it can kill in
\* that step); after step t+1 gcd = 9 and pending is false on its cell, and the wall is
\* armed unless the collision of step t+1 destroyed it (the cell is then empty).
C12_ArmedNextTick ==
    [][\A c \in obs[1].placed :
          /\ c \in obs'[1].armed
          /\ sims'[1].grid_state.gcd = GCD_FRAMES - 1
          /\ ~sims'[1].grid_state.wall_pending[c]
          /\ \/ /\ sims'[1].grid_state.wall_armed[c]
                /\ sims'[1].grid_state.grid[c] = WALL
             \/ /\ c \in obs'[1].kill_cells
                /\ ~sims'[1].grid_state.wall_armed[c]
                /\ sims'[1].grid_state.grid[c] = EMPTY]_vars

\* the wall placed in the previous step killed an enemy in this one and was destroyed
C12_Witness ==
    /\ Returned(1)
    /\ obs[1].prev_placed # {}
    /\ obs[1].prev_placed \subseteq obs[1].kill_cells
    /\ \A c \in obs[1].prev_placed : G.grid[c] = EMPTY
    /\ G.gcd = GCD_FRAMES - 1

\* C13 -- A failed placement is a silent no-op: a step whose action a # 0 is rejected
\* (gcd positive after the decrement, cell on cooldown, or cell occupied) leaves exactly
\* the post-state of step(state, 0) from the same state and has the same outcome;
\* no cooldown is restarted.
C13_FailedPlacementIsNoOp ==
    [][(obs'[1].action # NO_OP_ACTION /\ ~obs'[1].placement_success) =>
          LET noop == step(sims[1], NO_OP_ACTION) IN
             /\ obs'[1].reject \in {"gcd", "cell_cd", "occupied"}
             /\ sims'[1] = noop.sim
             /\ <<obs'[1].raised, obs'[1].reward, obs'[1].terminated, obs'[1].truncated>>
                   = <<noop.raised, noop.reward, noop.terminated, noop.truncated>>]_vars

\* a placement was rejected by the cell cooldown alone: the wall of the cell has been
\* destroyed and the global cooldown has run out
C13_Witness ==
    /\ Returned(1)
    /\ obs[1].action # NO_OP_ACTION
    /\ ~obs[1].placement_success
    /\ obs[1].reject = "cell_cd"
    /\ G.gcd = 0
    /\ \E c \in Cells : obs[1].action = encode_action(c) /\ G.grid[c] = EMPTY /\ G.cell_cd[c] > 0

\* the counters are inside the values a placement sets: none has ever wrapped
CounterRange ==
    /\ G.gcd \in 0 .. GCD_FRAMES
    /\ \A c \in Cells : /\ G.cell_cd[c] \in 0 .. CELL_CD_FRAMES
                        /\ G.wall_hp[c] \in 0 .. DEFAULT_WALL_HP

\* the cooldowns of a step: the saturating decrement of its first phase, then the
\* values written by its own placement, if it made one
CooldownDecrement ==
    LET t == tick_cooldowns(sims[1].grid_state)
        dec(v) == IF v > 0 THEN v - 1 ELSE 0
    IN /\ t.gcd = dec(sims[1].grid_state.gcd)
       /\ \A c \in Cells : t.cell_cd[c] = dec(sims[1].grid_state.cell_cd[c])
       /\ sims'[1].grid_state.gcd =
             IF obs'[1].placement_success THEN GCD_FRAMES ELSE t.gcd
       /\ \A c \in Cells :
             sims'[1].grid_state.cell_cd[c] =
                IF c \in obs'[1].placed THEN CELL_CD_FRAMES ELSE t.cell_cd[c]

C15_DeadSlotsZero ==
    Returned(1) =>
        \A i \in Slots :
            ~E.enemy_alive[i] =>
                /\ E.enemy_y_half[i] = 0 /\ E.enemy_x[i] = 0
                /\ E.enemy_type[i] = 0 /\ E.enemy_spawn_tick[i] = 0

\* a step killed an enemy that stood at a non-zero position and spawned none: the
\* pool shrank, and the slot behind the survivors is dead
C15_Witness ==
    /\ Returned(1)
    /\ obs[1].enemies_killed > 0
    /\ ~obs[1].spawned
    /\ obs[1].alive_count >= 1
    /\ obs[1].alive_count < MAX_ENEMIES
    /\ ~E.enemy_alive[obs[1].alive_count]
    /\ \E c \in obs[1].kill_cells : c[1] > 0 /\ c[2] > 0

\* the position of an alive enemy is its age in ticks: one half-cell per step since
\* its spawn, whatever row it has reached
PositionIsAge ==
    \A i \in Slots :
        E.enemy_alive[i] =>
            E.enemy_y_half[i] = (obs[1].call_tick - E.enemy_spawn_tick[i]) * ENEMY_SPEED_HALF

\* C16 -- Enemy position bounds until breach: in every state up to and including the
\* first step that returns terminated = true, every alive enemy has 0 <= x < 13 and
\* 0 <= y_half <= 17; the position is never clamped (it stays the enemy's age, also
\* on and past the core row).
C16_PositionBounds ==
    /\ ~obs[1].terminated_before =>
          \A i \in Slots :
              E.enemy_alive[i] =>
                  /\ E.enemy_x[i] >= 0 /\ E.enemy_x[i] < WIDTH
                  /\ E.enemy_y_half[i] >= 0 /\ E.enemy_y_half[i] <= 2 * HEIGHT - 1
    /\ Returned(1) => PositionIsAge

\* the first terminating step: an enemy stands on the core row at y_half = 16, not
\* held back, while younger enemies are alive behind it
C16_Witness ==
    /\ Returned(1)
    /\ obs[1].terminated
    /\ ~obs[1].terminated_before
    /\ obs[1].alive_count >= 2
    /\ E.enemy_y_half[0] = CORE_Y_HALF
    /\ E.enemy_x[0] \in 0 .. WIDTH - 1

\* the runs of scenario S6: spawning disabled, NO-OP only
S6Run ==
    /\ sims[1].spawn_interval = 0
    /\ obs[1].only_noop
    /\ obs[1].calls > 0

\* C17 -- Scenario S6 (truncation): with spawn_interval = 0 no enemy ever exists, and
\* over 1000 consecutive NO-OP steps from a fresh simulation the 1000th step returns
\* truncated = true while every earlier step returns terminated = false and
\* truncated = false (the 1000th is not terminated either, and its reward is 0).
C17_S6Truncation ==
    /\ sims[1].spawn_interval = 0 =>
          /\ \A i \in Slots : ~E.enemy_alive[i]
          /\ ~obs[1].spawned /\ obs[1].alive_count = 0
    /\ (S6Run /\ obs[1].calls <= MAX_EPISODE_TICKS) =>
          /\ Returned(1)
          /\ obs[1].reward = 0
          /\ ~obs[1].terminated
          /\ obs[1].truncated <=> (obs[1].calls = MAX_EPISODE_TICKS)

\* the 1000th NO-OP step of scenario S6 has returned truncated
C17_Witness ==
    /\ S6Run
    /\ obs[1].calls = MAX_EPISODE_TICKS
    /\ Returned(1)
    /\ obs[1].truncated
    /\ sims[1].tick = MAX_EPISODE_TICKS

\* the alive slots that carry a given spawn tick
SpawnedAt(enemy_state, t) ==
    {i \in Slots : enemy_state.enemy_alive[i] /\ enemy_state.enemy_spawn_tick[i] = t}

\* C18 -- Spawn schedule: a step attempts a spawn iff spawn_interval > 0 and its
\* pre-increment tick is a multiple of spawn_interval, and the attempt succeeds while a
\* slot is free; the first step (tick 0) therefore spawns one enemy with y_half = 0 and
\* spawn_tick = 0, a later spawn carries the tick of its step, and a step in which no
\* spawn is due adds no enemy: every alive enemy carries a scheduled tick.
C18_SpawnSchedule ==
    Returned(1) =>
        LET t == obs[1].call_tick
            si == sims[1].spawn_interval
            K == obs[1].alive_count
        IN /\ obs[1].spawn_due <=> (si > 0 /\ t % si = 0)
           /\ obs[1].spawned => obs[1].spawn_due
           /\ (obs[1].spawn_due /\ K < MAX_ENEMIES) => obs[1].spawned
           /\ Cardinality(SpawnedAt(E, t)) = (IF obs[1].spawned THEN 1 ELSE 0)
           /\ obs[1].spawned =>
                 /\ K >= 1
                 /\ E.enemy_alive[K - 1]
                 /\ E.enemy_spawn_tick[K - 1] = t
                 /\ E.enemy_y_half[K - 1] = 0
           /\ (obs[1].calls = 1 /\ si > 0) =>
                 /\ obs[1].spawned /\ K = 1
                 /\ E.enemy_y_half[0] = 0 /\ E.enemy_spawn_tick[0] = 0
           /\ \A i \in Slots :
                 E.enemy_alive[i] =>
                     /\ si > 0
                     /\ E.enemy_spawn_tick[i] <= t
                     /\ E.enemy_spawn_tick[i] % si = 0

\* the second spawn of an episode: the step of tick spawn_interval spawned an enemy
\* carrying that tick, after hundreds of steps in which none was due
C18_Witness ==
    /\ Returned(1)
    /\ sims[1].spawn_interval > DEFAULT_SPAWN_INTERVAL
    /\ obs[1].call_tick = sims[1].spawn_interval
    /\ obs[1].spawned
    /\ E.enemy_spawn_tick[obs[1].alive_count - 1] = obs[1].call_tick
    /\ E.enemy_y_half[obs[1].alive_count - 1] = 0

\* the fields of a slot
SlotFields(enemy_state, i) ==
    <<enemy_state.enemy_y_half[i], enemy_state.enemy_x[i], enemy_state.enemy_alive[i],
      enemy_state.enemy_type[i], enemy_state.enemy_spawn_tick[i]>>

\* C19 -- spawn_enemy contract: the new enemy is written into the lowest-index slot
\* that is not alive (y_half = 0, x drawn from the generator and in [0, 13),
\* alive = true, type = 0, spawn_tick = current_tick), every other slot is unchanged
\* and True is returned; when all 20 slots are alive it returns False, changes no slot
\* and draws nothing from the generator.
C19_SpawnEnemyContract ==
    (obs[1].calls > 0 /\ obs[1].op = "spawn_enemy") =>
        LET pre == obs[1].pre.enemy_state
            rng == obs[1].pre.rng
            dead == {i \in Slots : ~pre.enemy_alive[i]}
        IN IF dead = {}
           THEN /\ ~obs[1].ok
                /\ E = pre
                /\ sims[1].rng = rng
           ELSE LET slot == CHOOSE i \in dead : \A j \in dead : i <= j IN
                /\ obs[1].ok
                /\ E.enemy_x[slot] \in 0 .. WIDTH - 1
                /\ SlotFields(E, slot) =
                      <<0, integers(rng), TRUE, ENEMY_TYPE_DROP, obs[1].arg>>
                /\ \A i \in Slots \ {slot} : SlotFields(E, i) = SlotFields(pre, i)
                /\ sims[1].rng = advance(rng)

\* a spawn into the only gap of the pool (slot 7, not the last slot) succeeded, and
\* the next call found all 20 slots alive and returned False
C19_Witness ==
    /\ obs[1].calls >= 2
    /\ obs[1].op = "spawn_enemy"
    /\ ~obs[1].ok
    /\ obs[1].pre.rng.pos = 1
    /\ obs[1].pre.enemy_state.enemy_spawn_tick[7] \in CurrentTicks
    /\ \A i \in Slots : E.enemy_alive[i]

\* C20 -- place_wall rejection: place_wall(y, x) returns False and leaves every field
\* of the grid state unchanged whenever (y, x) is out of bounds, gcd # 0,
\* cell_cd[y,x] # 0 or grid[y,x] = 1; it returns True only when all four checks pass
\* (and then it writes the wall on that cell and nothing else).
C20_PlaceWallRejection ==
    (obs[1].calls > 0 /\ obs[1].op = "place_wall") =>
        LET pre == obs[1].pre.grid_state
            c == obs[1].arg
            valid == /\ c \in Cells
                     /\ pre.gcd = 0
                     /\ pre.cell_cd[c] = 0
                     /\ pre.grid[c] # WALL
        IN /\ obs[1].ok <=> valid
           /\ ~valid => G = pre
           /\ valid =>
                 G = [pre EXCEPT !.grid[c] = WALL, !.wall_hp[c] = DEFAULT_WALL_HP,
                                 !.wall_pending[c] = TRUE, !.wall_armed[c] = FALSE]

\* a call was rejected by the occupancy check alone: in bounds, no global cooldown, no
\* cell cooldown, an old wall on the cell; the grid state is the one before the call
C20_Witness ==
    /\ obs[1].calls > 0
    /\ obs[1].op = "place_wall"
    /\ ~obs[1].ok
    /\ obs[1].arg \in Cells
    /\ obs[1].pre.grid_state.gcd = 0
    /\ obs[1].pre.grid_state.cell_cd[obs[1].arg] = 0
    /\ obs[1].pre.grid_state.grid[obs[1].arg] = WALL
    /\ G = obs[1].pre.grid_state

\* simulation i is where its baseline is after as many steps, and its last step
\* returned what the baseline's step returned
MatchesBaseline(i) ==
    LET fresh == create_simulation_state(sims[i].spawn_interval, sims[i].rng.seed)
        n == obs[i].calls
    IN IF n = 0 THEN sims[i] = fresh
       ELSE LET prev == baseline(fresh, n - 1)
                r == step(prev, scripted_action(prev))
            IN /\ sims[i] = r.sim
               /\ <<obs[i].raised, obs[i].reward, obs[i].terminated, obs[i].truncated>>
                     = <<r.raised, r.reward, r.terminated, r.truncated>>

\* a step made on one simulation leaves the other simulation as it was
OthersUntouched ==
    \A i \in Sims :
        obs'[i].calls # obs[i].calls =>
            \A j \in Sims \ {i} : sims'[j] = sims[j] /\ obs'[j] = obs[j]

GlobalUntouched == obs'[1].calls # obs[1].calls => np_random' = np_random

action_valid(grid_state, c) ==
    grid_state.gcd = 0 /\ grid_state.cell_cd[c] = 0 /\ grid_state.grid[c] = EMPTY

\* C23 -- The action-validity predicate agrees with step: on the state between two
\* steps, for every cell (y, x), the next step with action 1 + 13*y + x places a wall
\* on (y, x) if and only if gcd = 0, cell_cd[y,x] = 0 and grid[y,x] = 0 hold in that
\* state.
C23_ValidityAgreesWithStep ==
    ~obs[1].raised =>
        \A c \in ActionCells :
            step(sims[1], encode_action(c)).placement_success <=> action_valid(G, c)

\* C24 -- Reactive placement never kills: a wall placed by a step on the cell an alive
\* enemy occupies in the pre-step state never kills that enemy, neither in that step
\* nor in any later one.
C24_ReactivePlacementNeverKills == obs[1].killed \cap obs[1].reactive = {}

\* a wall was placed on the cell of an enemy in the first half of the cell; the enemy
\* spent the placing step on that cell and is alive one step later, the wall now armed
C24_Witness ==
    /\ Returned(1)
    /\ obs[1].call_tick = obs[1].place_tick + 1
    /\ \E p \in obs[1].reactive :
          /\ G.wall_armed[p[1]]
          /\ \E i \in Slots : /\ E.enemy_alive[i]
                               /\ E.enemy_spawn_tick[i] = p[2]
                               /\ E.enemy_x[i] = p[1][2]
                               /\ E.enemy_y_half[i] = 2 * p[1][1] + 2

\* the grid cell of a slot: row floor(y_half / 2), column x
CellOf(enemy_state, i) == <<enemy_state.enemy_y_half[i] \div 2, enemy_state.enemy_x[i]>>

\* C25 -- detect_collisions: result bit i is true if and only if alive[i] and
\* wall_armed[floor(y_half[i] / 2), x[i]]; a cell whose wall is pending but not armed
\* never sets a bit, a dead slot never sets a bit whatever its position, and the call
\* changes no state.
C25_DetectCollisions ==
    (obs[1].calls > 0 /\ obs[1].op = "detect_collisions") =>
        LET pre == obs[1].pre
            mask == obs[1].ok
        IN /\ DOMAIN mask = Slots
           /\ \A i \in Slots :
                 /\ mask[i] <=> (/\ pre.enemy_state.enemy_alive[i]
                                 /\ pre.grid_state.wall_armed[CellOf(pre.enemy_state, i)])
                 /\ (/\ pre.grid_state.wall_pending[CellOf(pre.enemy_state, i)]
                     /\ ~pre.grid_state.wall_armed[CellOf(pre.enemy_state, i)]) => ~mask[i]
                 /\ ~pre.enemy_state.enemy_alive[i] => ~mask[i]
           /\ sims[1] = pre

\* one call met all three cases: an alive enemy on an armed wall (bit set), an alive
\* enemy on a pending wall (bit clear) and a dead slot standing on an armed wall
C25_Witness ==
    /\ obs[1].calls > 0 /\ obs[1].op = "detect_collisions"
    /\ \E i, j, k \in Slots :
          /\ obs[1].ok[i] /\ E.enemy_alive[i]
          /\ E.enemy_alive[j] /\ G.wall_pending[CellOf(E, j)] /\ ~obs[1].ok[j]
          /\ ~E.enemy_alive[k] /\ G.wall_armed[CellOf(E, k)] /\ ~obs[1].ok[k]
          /\ E.enemy_y_half[k] > 0

\* D[c]: the number of mask enemies whose cell is c
HitsOn(enemy_state, mask, c) ==
    Cardinality({i \in Slots : mask[i] /\ CellOf(enemy_state, i) = c})

\* the last call was resolve_collisions
Resolved == obs[1].calls > 0 /\ obs[1].op = "resolve_collisions"

\* C26 -- resolve_collisions damage stacking: with D[c] the number of mask enemies
\* whose cell is c, a cell is destroyed if and only if D[c] > 0 and D[c] >= wall_hp[c],
\* and then grid, wall_hp, wall_armed and wall_pending of c are all cleared; otherwise
\* wall_hp[c] becomes wall_hp[c] - D[c] and the cell keeps its wall and armed flag;
\* cells with D[c] = 0 are unchanged; the call returns (number of mask enemies,
\* number of destroyed cells).
C26_DamageStacking ==
    Resolved =>
        LET pre == obs[1].pre.grid_state
            mask == obs[1].arg
            D == [c \in Cells |-> HitsOn(obs[1].pre.enemy_state, mask, c)]
            destroyed == {c \in Cells : D[c] > 0 /\ D[c] >= pre.wall_hp[c]}
        IN /\ \A c \in destroyed :
                 <<G.grid[c], G.wall_hp[c], G.wall_armed[c], G.wall_pending[c]>>
                    = <<EMPTY, 0, FALSE, FALSE>>
           /\ \A c \in Cells \ destroyed :
                 <<G.grid[c], G.wall_hp[c], G.wall_armed[c], G.wall_pending[c]>>
                    = <<pre.grid[c], pre.wall_hp[c] - D[c], pre.wall_armed[c],
                        pre.wall_pending[c]>>
           /\ G.cell_cd = pre.cell_cd /\ G.gcd = pre.gcd
           /\ obs[1].ok = <<Cardinality({i \in Slots : mask[i]}), Cardinality(destroyed)>>

\* one call destroyed a wall hit by more enemies than it had hit points and left
\* another wall standing, armed, with fewer hit points than before
C26_Witness ==
    /\ Resolved
    /\ \E c, d \in Cells :
          /\ HitsOn(obs[1].pre.enemy_state, obs[1].arg, c) > obs[1].pre.grid_state.wall_hp[c]
          /\ obs[1].pre.grid_state.wall_hp[c] > 0
          /\ G.grid[c] = EMPTY
          /\ HitsOn(obs[1].pre.enemy_state, obs[1].arg, d) > 0
          /\ G.wall_hp[d] > 0 /\ G.wall_hp[d] < obs[1].pre.grid_state.wall_hp[d]
          /\ G.wall_armed[d] /\ G.grid[d] = WALL

\* C27 -- Every colliding enemy dies: after resolve_collisions every enemy in the mask
\* has alive = false and enemies_killed equals the number of mask bits, also when more
\* enemies stand on a cell than the wall has hit points; enemies not in the mask stay
\* alive (and no slot changes in any other field).
C27_EveryCollidingEnemyDies ==
    Resolved =>
        LET pre == obs[1].pre.enemy_state
            mask == obs[1].arg
        IN /\ \A i \in Slots : mask[i] => ~E.enemy_alive[i]
           /\ \A i \in Slots : ~mask[i] => E.enemy_alive[i] = pre.enemy_alive[i]
           /\ obs[1].ok[1] = Cardinality({i \in Slots : mask[i]})
           /\ E = [pre EXCEPT !.enemy_alive = E.enemy_alive]

\* four enemies stood on one wall of at most three hit points: all four are dead, and
\* an enemy that stood on no wall is alive
C27_Witness ==
    /\ Resolved
    /\ obs[1].ok[1] = 4
    /\ \E c \in Cells :
          /\ HitsOn(obs[1].pre.enemy_state, obs[1].arg, c) = 4
          /\ obs[1].pre.grid_state.wall_hp[c] < 4
    /\ \A i \in Slots : obs[1].arg[i] => ~E.enemy_alive[i]
    /\ \E i \in Slots : E.enemy_alive[i] /\ ~obs[1].arg[i]

\* the records of the slots in a set
Records(enemy_state, slots) == {SlotFields(enemy_state, i) : i \in slots}

\* C28 -- Order independence of collision resolution: permuting the enemy slots (and
\* the mask with them) before detect_collisions and resolve_collisions yields the same
\* grid state, the same set of dead enemies and the same (enemies_killed,
\* walls_destroyed).
C28_OrderIndependence ==
    Resolved =>
        \A pi \in SlotPermutations :
            LET pre == obs[1].pre
                enemies == permute(pre.enemy_state, pi)
                mask == detect_collisions(pre.grid_state, enemies)
                r == resolve_collisions(pre.grid_state, enemies, mask)
            IN /\ \A i \in Slots : mask[i] = obs[1].arg[pi[i]]
               /\ r.grid_state = G
               /\ r.enemy_state = permute(E, pi)
               /\ Records(r.enemy_state, {i \in Slots : mask[i]})
                     = Records(E, {i \in Slots : obs[1].arg[i]})
               /\ <<r.enemies_killed, r.walls_destroyed>> = obs[1].ok

\* a call that killed enemies on two walls, next to a dead slot and a survivor, and
\* destroyed one of the walls: the permuted pools order these slots differently
C28_Witness ==
    /\ Resolved
    /\ obs[1].ok[1] >= 3
    /\ obs[1].ok[2] >= 1
    /\ Cardinality({CellOf(E, i) : i \in {j \in Slots : obs[1].arg[j]}}) = 2
    /\ \E i \in Slots : ~obs[1].pre.enemy_state.enemy_alive[i] /\ E.enemy_y_half[i] > 0

\* a call of compact_enemies
CompactCalled == obs[1].op = "compact_enemies"

AliveSlots(enemy_state) == {i \in Slots : enemy_state.enemy_alive[i]}

\* alive slots in front of dead slots
AliveInFront(enemy_state) ==
    \A i \in Slots : enemy_state.enemy_alive[i] <=> i < Cardinality(AliveSlots(enemy_state))

\* the alive slot of a pool that has r alive slots before it in slot order
nth_alive(enemy_state, r) ==
    CHOOSE i \in AliveSlots(enemy_state) :
        Cardinality({j \in AliveSlots(enemy_state) : j < i}) = r

\* the alive slot of a pool that has r alive slots before it in the order of
\* (spawn_tick, slot)
nth_oldest(enemy_state, r) ==
    CHOOSE i \in AliveSlots(enemy_state) :
        Cardinality({j \in AliveSlots(enemy_state) :
                        \/ enemy_state.enemy_spawn_tick[j] < enemy_state.enemy_spawn_tick[i]
                        \/ /\ enemy_state.enemy_spawn_tick[j] = enemy_state.enemy_spawn_tick[i]
                           /\ j < i}) = r

\* C29 as stated -- compact_enemies moves alive slots in front of dead slots while
\* preserving the relative order that the alive enemies had in the slot arrays before
\* the call.
C29_PreservesSlotOrder ==
    CompactCalled =>
        /\ AliveInFront(E)
        /\ \A r \in 0 .. obs[1].ok - 1 :
              SlotFields(E, r) = SlotFields(obs[1].pre.enemy_state,
                                            nth_alive(obs[1].pre.enemy_state, r))

\* C29 -- compact_enemies moves alive slots in front of dead slots, the alive enemies
\* in ascending order of spawn_tick; alive enemies of equal spawn_tick keep the relative
\* order they had in the slot arrays before the call.
C29_OrderedBySpawnTick ==
    CompactCalled =>
        /\ AliveInFront(E)
        /\ \A r \in 0 .. obs[1].ok - 1 :
              SlotFields(E, r) = SlotFields(obs[1].pre.enemy_state,
                                            nth_oldest(obs[1].pre.enemy_state, r))
        /\ \A r \in 1 .. obs[1].ok - 1 : E.enemy_spawn_tick[r - 1] <= E.enemy_spawn_tick[r]

\* a call on a pool whose alive slots were not in spawn order (a younger enemy in a
\* lower slot than an older one), with a dead slot between alive slots and two
\* enemies of one spawn tick in different columns
C29_Witness ==
    /\ CompactCalled
    /\ LET pre == obs[1].pre.enemy_state IN
          /\ \E i, j \in AliveSlots(pre) :
                i < j /\ pre.enemy_spawn_tick[i] > pre.enemy_spawn_tick[j]
          /\ \E i, j \in AliveSlots(pre) :
                /\ i < j
                /\ pre.enemy_spawn_tick[i] = pre.enemy_spawn_tick[j]
                /\ pre.enemy_x[i] # pre.enemy_x[j]
          /\ \E i \in Slots, j \in AliveSlots(pre) : i < j /\ ~pre.enemy_alive[i]

\* the number of alive slots that hold the record of slot i
Copies(enemy_state, other, i) ==
    Cardinality({j \in AliveSlots(enemy_state) :
                    SlotFields(enemy_state, j) = SlotFields(other, i)})

\* C30 -- compact_enemies keeps enemy records intact: the multiset of alive records
\* (y_half, x, type, spawn_tick) is identical before and after the call; the returned
\* value is the number of alive slots; calling compact_enemies a second time changes
\* nothing.
C30_RecordsIntact ==
    CompactCalled =>
        LET pre == obs[1].pre.enemy_state IN
        /\ \A i \in AliveSlots(pre) : Copies(E, pre, i) = Copies(pre, pre, i)
        /\ \A i \in AliveSlots(E) : Copies(pre, E, i) = Copies(E, E, i)
        /\ obs[1].ok = Cardinality(AliveSlots(pre))
        /\ obs[1].ok = Cardinality(AliveSlots(E))
        /\ compact_enemies(E) = [state |-> E, alive_count |-> obs[1].ok]
        /\ obs[1].calls >= 2 => E = pre

\* a second call in a row, on a pool of at least four alive enemies with two equal
\* records, records in different columns and different spawn ticks
C30_Witness ==
    /\ CompactCalled
    /\ obs[1].calls = 2
    /\ obs[1].ok >= 4
    /\ \E i, j \in AliveSlots(E) : i # j /\ SlotFields(E, i) = SlotFields(E, j)
    /\ \E i, j \in AliveSlots(E) : E.enemy_x[i] # E.enemy_x[j]
    /\ \E i \in 1 .. obs[1].ok - 1 : E.enemy_spawn_tick[i - 1] < E.enemy_spawn_tick[i]

\* a step that tries CooldownCell after a wall was placed on it at tick place_tick
CooldownAttempt ==
    /\ obs'[1].calls = obs[1].calls + 1
    /\ obs'[1].action = encode_action(CooldownCell)
    /\ obs[1].place_tick >= 0

CellCooldownLaw ==
    CooldownAttempt =>
        LET t == obs[1].place_tick
            u == sims[1].tick
        IN /\ u - t < CELL_CD_FRAMES =>
                /\ ~obs'[1].placement_success
                /\ obs'[1].reject \in {"gcd", "cell_cd"}
                /\ obs'[1].place_tick = t
           /\ (u - t >= CELL_CD_FRAMES /\ sims[1].grid_state.grid[CooldownCell] = EMPTY) =>
                /\ obs'[1].placement_success
                /\ obs'[1].place_tick = u

\* C31 -- Cell cooldown duration: after a wall is placed on cell c in the step at tick
\* t, every placement on c is rejected in the steps at ticks t+1 through t+149, also
\* when the wall was destroyed in between; the earliest tick at which c can receive a
\* wall again is t+150.
C31_CellCooldownDuration == [][CellCooldownLaw]_vars

\* the cell received its second wall exactly CELL_CD_FRAMES ticks after the first,
\* which an enemy had destroyed in between
C31_Witness ==
    /\ obs[1].placement_success
    /\ obs[1].prev_place_tick >= 0
    /\ obs[1].place_tick = obs[1].prev_place_tick + CELL_CD_FRAMES
    /\ obs[1].placed = {CooldownCell}

PendingCells == {c \in Cells : G.wall_pending[c]}

\* C32 -- Cooldowns are applied exactly on successful placement: at the end of every
\* step, gcd = 10 if and only if a placement succeeded in that step, if and only if
\* exactly one cell has wall_pending = true, and that cell is the only cell with
\* cell_cd = 150; at the end of a step without a successful placement no cell is
\* pending and gcd <= 9.
C32_CooldownsIffPlacement ==
    Returned(1) =>
        /\ (G.gcd = GCD_FRAMES) <=> obs[1].placement_success
        /\ obs[1].placement_success <=> (Cardinality(PendingCells) = 1)
        /\ obs[1].placement_success =>
              /\ PendingCells = obs[1].placed
              /\ {c \in Cells : G.cell_cd[c] = CELL_CD_FRAMES} = PendingCells
        /\ ~obs[1].placement_success =>
              /\ PendingCells = {}
              /\ G.gcd <= GCD_FRAMES - 1
              /\ \A c \in Cells : G.cell_cd[c] # CELL_CD_FRAMES

\* a second placement, on another cell than the first, whose wall is armed by now and
\* whose cell cooldown is still running
C32_Witness ==
    /\ Returned(1)
    /\ obs[1].placement_success
    /\ G.gcd = GCD_FRAMES
    /\ \E c \in Cells \ obs[1].placed :
          G.wall_armed[c] /\ G.cell_cd[c] > 0 /\ G.cell_cd[c] < CELL_CD_FRAMES

\* C33 -- Position is determined by age: at the end of every step from a fresh
\* simulation, every alive enemy i satisfies y_half[i] = (tick - 1) - spawn_tick[i],
\* where tick is the counter after the increment; hence alive enemies have pairwise
\* distinct spawn_tick and pairwise distinct y_half.
C33_PositionIsAge ==
    Returned(1) =>
        /\ \A i \in AliveSlots(E) :
              E.enemy_y_half[i] = (sims[1].tick - 1) - E.enemy_spawn_tick[i]
        /\ \A i, j \in AliveSlots(E) :
              i # j => /\ E.enemy_spawn_tick[i] # E.enemy_spawn_tick[j]
                       /\ E.enemy_y_half[i] # E.enemy_y_half[j]

\* a step that killed an enemy, spawned another and left at least three alive, the
\* oldest of them several rows down
C33_Witness ==
    /\ Returned(1)
    /\ obs[1].enemies_killed >= 1
    /\ obs[1].spawned
    /\ obs[1].alive_count >= 3
    /\ E.enemy_y_half[0] >= 4
    /\ E.enemy_y_half[obs[1].alive_count - 1] = 0

\* the runs without a placement attempt and with spawning enabled
NoOpRun ==
    /\ sims[1].spawn_interval > 0
    /\ obs[1].only_noop
    /\ obs[1].calls > 0

\* C34 -- Earliest breach: from a fresh simulation with any spawn_interval > 0 and
\* only NO-OP actions, the first 16 steps each return (0, false, false) and the 17th
\* step (tick 16) returns terminated = true with reward -1, because the enemy spawned
\* at tick 0 reaches y_half = 16 in that step.
C34_EarliestBreach ==
    NoOpRun =>
        /\ obs[1].calls <= CORE_Y_HALF =>
              /\ Returned(1)
              /\ obs[1].reward = 0 /\ ~obs[1].terminated /\ ~obs[1].truncated
        /\ obs[1].calls = CORE_Y_HALF + 1 =>
              /\ Returned(1)
              /\ obs[1].call_tick = CORE_Y_HALF
              /\ obs[1].terminated /\ obs[1].reward = -1
              /\ E.enemy_alive[0] /\ E.enemy_spawn_tick[0] = 0
              /\ E.enemy_y_half[0] = CORE_Y_HALF
              /\ \A i \in AliveSlots(E) \ {0} : E.enemy_y_half[i] < CORE_Y_HALF

\* the 17th NO-OP step with an enemy spawned in every tick: seventeen enemies are
\* alive, the oldest on the core row
C34_Witness ==
    /\ NoOpRun
    /\ sims[1].spawn_interval = 1
    /\ obs[1].calls = CORE_Y_HALF + 1
    /\ obs[1].terminated
    /\ obs[1].alive_count = CORE_Y_HALF + 1

\* C35 -- The enemy pool never fills during an episode: in every run from a fresh
\* simulation, at the end of every step before the first terminated = true at most 16
\* enemies are alive (at most 17 at the end of the terminating step), so every due
\* spawn up to and including the terminating step finds a free slot and spawn_enemy
\* never returns false.
C35_PoolNeverFills ==
    (obs[1].calls > 0 /\ ~obs[1].terminated_before) =>
        /\ Returned(1)
        /\ obs[1].alive_count = Cardinality(AliveSlots(E))
        /\ obs[1].alive_count <= (IF obs[1].terminated THEN CORE_Y_HALF + 1 ELSE CORE_Y_HALF)
        /\ obs[1].alive_count < MAX_ENEMIES
        /\ obs[1].spawn_due => obs[1].spawned

\* the fullest pool of an episode: the terminating step with an enemy spawned in
\* every tick, its own spawn included, and no kill before it
C35_Witness ==
    /\ Returned(1)
    /\ obs[1].terminated
    /\ ~obs[1].terminated_before
    /\ obs[1].spawn_due /\ obs[1].spawned
    /\ obs[1].alive_count = CORE_Y_HALF + 1
    /\ E.enemy_spawn_tick[CORE_Y_HALF] = CORE_Y_HALF

WallHpRange == \A c \in Cells : G.wall_hp[c] \in {0, DEFAULT_WALL_HP}

\* a step removes the walls of the cells it killed on, and no other wall
WallRemoval ==
    \A c \in Cells :
        /\ c \in obs'[1].kill_cells <=>
              (G.grid[c] = WALL /\ sims'[1].grid_state.grid[c] = EMPTY)
        /\ c \in obs'[1].kill_cells =>
              /\ (G.wall_armed[c] \/ G.wall_pending[c]) /\ G.wall_hp[c] = DEFAULT_WALL_HP
              /\ sims'[1].grid_state.wall_hp[c] = 0
              /\ ~sims'[1].grid_state.wall_armed[c]
              /\ ~sims'[1].grid_state.wall_pending[c]
        /\ (G.grid[c] = WALL /\ c \notin obs'[1].kill_cells) =>
              /\ sims'[1].grid_state.grid[c] = WALL
              /\ sims'[1].grid_state.wall_hp[c] = G.wall_hp[c]

\* C36 -- Wall lifecycle: in every state reachable through step from a fresh
\* simulation wall_hp is 0 or 1 for every cell, and a wall is removed exactly in the
\* first step in which an enemy collides with it: it never survives a collision, is
\* never removed in a step without a kill on its cell, and therefore contributes to
\* the kill count in at most one step.
C36_WallLifecycle == []WallHpRange /\ [][WallRemoval]_vars

\* a step killed an enemy on a wall and removed it while another wall, not hit,
\* stayed with its hit point
C36_Witness ==
    /\ Returned(1)
    /\ obs[1].enemies_killed = 1
    /\ \A c \in obs[1].kill_cells : G.grid[c] = EMPTY /\ G.wall_hp[c] = 0
    /\ \E c \in Cells \ obs[1].kill_cells : G.grid[c] = WALL /\ G.wall_hp[c] = DEFAULT_WALL_HP

CoolingCells == {c \in Cells : G.cell_cd[c] > 0}

\* C37 -- Cooldown spacing: at the end of every step, any two distinct cells with
\* positive cell_cd have cell_cd values that differ by at least 10, and hence at most
\* 15 cells have a positive cell_cd at the same time.
C37_CooldownSpacing ==
    Returned(1) =>
        /\ \A c, d \in CoolingCells :
              c # d => \/ G.cell_cd[c] - G.cell_cd[d] >= GCD_FRAMES
                       \/ G.cell_cd[d] - G.cell_cd[c] >= GCD_FRAMES
        /\ Cardinality(CoolingCells) <= CELL_CD_FRAMES \div GCD_FRAMES

\* fifteen cells cool down at once, two of them exactly GCD_FRAMES apart, while a
\* sixteenth wall stands on a cell whose cooldown has run out
C37_Witness ==
    /\ Returned(1)
    /\ Cardinality(CoolingCells) = CELL_CD_FRAMES \div GCD_FRAMES
    /\ \E c, d \in CoolingCells : G.cell_cd[c] - G.cell_cd[d] = GCD_FRAMES
    /\ \E c \in Cells : G.grid[c] = WALL /\ G.cell_cd[c] = 0

\* C38 -- Out-of-range actions behave as NO-OP: for every reachable state and every
\* integer action outside [0, 118) (negative or >= 118), step produces exactly the same
\* post-state and return tuple as step with action 0, because the decoded row is out
\* of bounds and the placement is rejected.
C38_OutOfRangeIsNoOp ==
    [][(obs'[1].action < 0 \/ obs'[1].action >= NUM_ACTIONS) =>
          LET noop == step(sims[1], NO_OP_ACTION)
              y == (obs'[1].action - 1) \div WIDTH
          IN /\ y < 0 \/ y >= HEIGHT
             /\ ~obs'[1].placement_success
             /\ obs'[1].reject \in {"gcd", "bounds"}
             /\ sims'[1] = noop.sim
             /\ <<obs'[1].raised, obs'[1].reward, obs'[1].terminated, obs'[1].truncated>>
                   = <<noop.raised, noop.reward, noop.terminated, noop.truncated>>]_vars

\* a negative action was decoded, the global cooldown being over, and rejected by the
\* bounds check in a step that armed nothing new, killed an enemy and spawned one
C38_Witness ==
    /\ Returned(1)
    /\ obs[1].action < 0
    /\ obs[1].reject = "bounds"
    /\ G.gcd = 0
    /\ obs[1].enemies_killed = 1
    /\ obs[1].spawned

\* both simulations have completed the same number of steps
BothCompleted == obs[1].calls = obs[2].calls /\ Returned(1) /\ Returned(2)

\* the column of the enemy spawned by the last step of simulation i, if any
SpawnColumn(i) ==
    {sims[i].enemy_state.enemy_x[k] :
        k \in {j \in Slots : /\ sims[i].enemy_state.enemy_alive[j]
                             /\ sims[i].enemy_state.enemy_spawn_tick[j] = obs[i].call_tick}}

\* C39 -- Actions do not influence spawning: for two simulations with the same seed
\* and spawn_interval but different action sequences, after any number of steps
\* completed by both, the ticks at which enemies were spawned and the column drawn for
\* each spawn are identical; actions never consume randomness and never cause a spawn
\* to be skipped.
C39_ActionsDoNotInfluenceSpawning ==
    BothCompleted =>
        /\ sims[1].tick = sims[2].tick
        /\ sims[1].rng = sims[2].rng
        /\ \A i \in Sims :
              /\ obs[i].spawn_due = (obs[i].call_tick % sims[i].spawn_interval = 0)
              /\ obs[i].spawned = obs[i].spawn_due
              /\ Cardinality(SpawnColumn(i)) = (IF obs[i].spawned THEN 1 ELSE 0)
              /\ sims[i].rng.pos =
                    (sims[i].tick + sims[i].spawn_interval - 1) \div sims[i].spawn_interval
        /\ SpawnColumn(1) = SpawnColumn(2)
        /\ \A j, k \in Slots :
              (/\ sims[1].enemy_state.enemy_alive[j]
               /\ sims[2].enemy_state.enemy_alive[k]
               /\ sims[1].enemy_state.enemy_spawn_tick[j]
                     = sims[2].enemy_state.enemy_spawn_tick[k])
              => sims[1].enemy_state.enemy_x[j] = sims[2].enemy_state.enemy_x[k]

\* both simulations spawned in their last step, the first one right after a kill on
\* its own wall, so the two pools hold different enemies
C39_Witness ==
    /\ BothCompleted
    /\ obs[1].spawned /\ obs[2].spawned
    /\ obs[1].enemies_killed = 1 /\ obs[2].enemies_killed = 0
    /\ sims[1].enemy_state # sims[2].enemy_state
    /\ sims[1].grid_state # sims[2].grid_state

====
